---- MODULE Spec2Model ----
(***************************************************************************)
(* Football statistics ETL pipeline (scripts/run_pipeline.py, scripts/etl). *)
(*                                                                         *)
(* The output directory data/clean is modelled as a record of files.  A    *)
(* file is absent, blank (the header-less file pandas writes for a         *)
(* DataFrame built from an empty list, which read_csv refuses to parse) or *)
(* a table: a sequence of rows.  Rows carry the key columns the stages     *)
(* compute with (names, surrogate ids, competition_name); the measurement  *)
(* columns that are copied through unchanged are projected away.           *)
(*                                                                         *)
(* Spec          create_teams_table statement by statement, then           *)
(*               normalize_matches and split_matches, on drawn inputs.     *)
(* SpecPipeline  run_pipeline, one action per stage, validate_all one      *)
(*               action per check group, run repeatedly on one directory.  *)
(* SpecValidate  one validator function called on tables of full size.    *)
(* SpecStages    the stages from create_reference_tables on, with a match  *)
(*               table cleaned again in between.                           *)
(* SpecDerive    one function of derive_metrics called on tables that      *)
(*               carry their measurement columns.                          *)
(* SpecPlayers   create_players_table and normalize_players.               *)
(***************************************************************************)
EXTENDS Integers, Sequences, FiniteSets, TLC

VARIABLES fs, step, trow, teams_data, team_id_counter, seen_teams, split_ret,
          pc, runs, results, failed, executed, raised, exit_code,
          vran, verror, vreturn

vars == <<fs, step, trow, teams_data, team_id_counter, seen_teams, split_ret,
          pc, runs, results, failed, executed, raised, exit_code,
          vran, verror, vreturn>>

coreVars == <<step, trow, teams_data, team_id_counter, seen_teams, split_ret>>

pipeVars == <<pc, runs, results, failed, executed, raised, exit_code,
              vran, verror, vreturn>>

(***************************************************************************)
(* Bounds                                                                  *)
(***************************************************************************)
MaxLeagueRows == 2

MaxWcRows == 1

PipeLeagueRows == 1

PipeWcRows == 1

PipePlayerRows == 1

MaxRuns == 2

\* Leading rows of a full-size table that are written out.
MaxProbes == 1

\* Rows of a table the metric derivers are called on.
MaxDeriveRows == 2

\* Rows of the player table the player functions are called on.
MaxPlayerRows == 2

TeamNames == {"A", "B", "C"}

PlayerNames == {"p"}

(***************************************************************************)
(* Values                                                                  *)
(***************************************************************************)
\* A missing value of a numeric column (the NaN Series.map leaves for a miss,
\* an empty CSV cell): a number outside the ids and measurements modelled.
NaN == -1000

\* Python None in a text column.
None == "None"

LeagueCompetition == "Premier League"

WcCompetition == "World Cup"

\* run_pipeline has not returned yet.
NoExit == -1

SeqsUpTo(S, n) == UNION {[1..k -> S] : k \in 0..n}

SeqToSet(s) == {s[i] : i \in DOMAIN s}

\* Comparisons of pandas: <, > with NaN are False, != with NaN is True.
Lt(a, b) == a # NaN /\ b # NaN /\ a < b

Gt(a, b) == a # NaN /\ b # NaN /\ a > b

Ne(a, b) == a = NaN \/ b = NaN \/ a # b

\* Series + Series: NaN where either is NaN.
Plus(a, b) == IF a = NaN \/ b = NaN THEN NaN ELSE a + b

\* DataFrame.sum(axis=1) skips NaN.
RowSum(a, b) == (IF a = NaN THEN 0 ELSE a) + (IF b = NaN THEN 0 ELSE b)

(***************************************************************************)
(* Files                                                                   *)
(***************************************************************************)
Absent == [state |-> "absent", rows |-> <<>>]

Blank == [state |-> "blank", rows |-> <<>>]

Table(rows) == [state |-> "table", rows |-> rows]

Exists(f) == f.state # "absent"

\* pd.read_csv raises EmptyDataError on a file without a header line.
Readable(f) == f.state = "table"

\* pd.DataFrame(list_of_dicts).to_csv: no dicts, no columns, no header.
RecordsToCsv(rows) == IF rows = <<>> THEN Blank ELSE Table(rows)

FileNames == {"clean_league_matches", "clean_wc_matches", "clean_wc_standings",
              "clean_wc_players", "ref_teams", "ref_players",
              "normalized_league_matches", "normalized_wc_matches",
              "normalized_wc_players", "db_matches_base",
              "db_match_stats_advanced", "db_matches_base_enhanced",
              "db_match_stats_advanced_enhanced", "db_players_stats_enhanced",
              "db_standings_enhanced"}

EmptyDir == [n \in FileNames |-> Absent]

(***************************************************************************)
(* create_teams_table                                                      *)
(***************************************************************************)
TeamRow(id, name, ctype, country, competition) ==
    [team_id |-> id, team_name |-> name, competition_type |-> ctype,
     country |-> country, primary_competition |-> competition]

\* AddTeam without "team_id_counter += 1".
AddTeamNoIncrement(st, name, ctype, country, competition) ==
    IF name \notin st.seen
    THEN [data |-> Append(st.data, TeamRow(st.counter, name, ctype, country, competition)),
          seen |-> st.seen \cup {name},
          counter |-> st.counter]
    ELSE st

\* AddTeam without the "not in seen_teams" test.
AddTeamNoSeenCheck(st, name, ctype, country, competition) ==
    [data |-> Append(st.data, TeamRow(st.counter, name, ctype, country, competition)),
     seen |-> st.seen \cup {name},
     counter |-> st.counter + 1]

\* One "if name and name not in seen_teams" block.  Names are non-empty
\* strings, so the truthiness test is always passed.
AddTeam(st, name, ctype, country, competition) ==
    IF name \notin st.seen
    THEN [data |-> Append(st.data, TeamRow(st.counter, name, ctype, country, competition)),
          seen |-> st.seen \cup {name},
          counter |-> st.counter + 1]
    ELSE st

LeagueHome(st, row) == AddTeam(st, row.home_team, "league", None, row.competition_name)

LeagueAway(st, row) == AddTeam(st, row.away_team, "league", None, row.competition_name)

WcHome(st, row) == AddTeam(st, row.home_team, "international", row.home_team, WcCompetition)

\* The World-Cup loop without its away-team block.
WcAwaySkipped(st, row) == st

WcAway(st, row) == AddTeam(st, row.away_team, "international", row.away_team, WcCompetition)

TeamsStart == [data |-> <<>>, seen |-> {}, counter |-> 1]

RECURSIVE ScanLeague(_, _)
ScanLeague(st, rows) ==
    IF rows = <<>> THEN st
    ELSE ScanLeague(LeagueAway(LeagueHome(st, Head(rows)), Head(rows)), Tail(rows))

RECURSIVE ScanWc(_, _)
ScanWc(st, rows) ==
    IF rows = <<>> THEN st
    ELSE ScanWc(WcAway(WcHome(st, Head(rows)), Head(rows)), Tail(rows))

\* create_teams_table numbering on from the rows of the ref_teams.csv it finds.
CreateTeamsTableNumberingOn(dir) ==
    LET s0 == [TeamsStart EXCEPT !.counter = Len(dir["ref_teams"].rows) + 1]
        s1 == IF Exists(dir["clean_league_matches"])
              THEN ScanLeague(s0, dir["clean_league_matches"].rows)
              ELSE s0
        s2 == IF Exists(dir["clean_wc_matches"])
              THEN ScanWc(s1, dir["clean_wc_matches"].rows)
              ELSE s1
    IN [dir EXCEPT !["ref_teams"] = RecordsToCsv(s2.data)]

\* The whole function: the directory it leaves.
CreateTeamsTable(dir) ==
    LET s1 == IF Exists(dir["clean_league_matches"])
              THEN ScanLeague(TeamsStart, dir["clean_league_matches"].rows)
              ELSE TeamsStart
        s2 == IF Exists(dir["clean_wc_matches"])
              THEN ScanWc(s1, dir["clean_wc_matches"].rows)
              ELSE s1
    IN [dir EXCEPT !["ref_teams"] = RecordsToCsv(s2.data)]

(***************************************************************************)
(* normalize_matches                                                       *)
(***************************************************************************)
\* A miss filled with 0, as .fillna(0) after the map would.
TeamNameToIdOrZero(teams, name) ==
    LET hits == {i \in DOMAIN teams : teams[i].team_name = name}
    IN IF hits = {} THEN 0
       ELSE teams[CHOOSE i \in hits : \A j \in hits : j <= i].team_id

\* dict(zip(teams_df['team_name'], teams_df['team_id'])): the last row of a
\* name wins; Series.map leaves NaN for a name that is not a key.
TeamNameToId(teams, name) ==
    LET hits == {i \in DOMAIN teams : teams[i].team_name = name}
    IN IF hits = {} THEN NaN
       ELSE teams[CHOOSE i \in hits : \A j \in hits : j <= i].team_id

\* The two id columns mapped from the wrong name columns.
NormalizedRowSidesSwapped(teams, row) ==
    [home_team_id |-> TeamNameToId(teams, row.away_team),
     away_team_id |-> TeamNameToId(teams, row.home_team),
     home_team |-> row.home_team,
     away_team |-> row.away_team,
     competition_name |-> row.competition_name]

NormalizedRow(teams, row) ==
    [home_team_id |-> TeamNameToId(teams, row.home_team),
     away_team_id |-> TeamNameToId(teams, row.away_team),
     home_team |-> row.home_team,
     away_team |-> row.away_team,
     competition_name |-> row.competition_name]

NormalizeTable(teams, rows) == [i \in DOMAIN rows |-> NormalizedRow(teams, rows[i])]

\* result: "none" for the early return (None, None), "raise" when read_csv
\* of ref_teams.csv fails, "ok" otherwise.
NormalizeMatches(dir) ==
    IF ~Exists(dir["ref_teams"]) THEN [dir |-> dir, result |-> "none"]
    ELSE IF ~Readable(dir["ref_teams"]) THEN [dir |-> dir, result |-> "raise"]
    ELSE LET teams == dir["ref_teams"].rows
             d1 == IF Exists(dir["clean_league_matches"])
                   THEN [dir EXCEPT !["normalized_league_matches"] =
                            Table(NormalizeTable(teams, dir["clean_league_matches"].rows))]
                   ELSE dir
             d2 == IF Exists(dir["clean_wc_matches"])
                   THEN [d1 EXCEPT !["normalized_wc_matches"] =
                            Table(NormalizeTable(teams, dir["clean_wc_matches"].rows))]
                   ELSE d1
         IN [dir |-> d2, result |-> "ok"]

(***************************************************************************)
(* split_matches                                                           *)
(***************************************************************************)
BaseMatch(row, id) ==
    [match_id |-> id, competition_name |-> row.competition_name,
     home_team_id |-> row.home_team_id, away_team_id |-> row.away_team_id]

AdvancedStats(row, id) == [match_id |-> id]

SplitStart == [base |-> <<>>, adv |-> <<>>, counter |-> 1]

\* The league loop without "match_id_counter += 1".
SplitLeagueRowNoIncrement(st, row) ==
    [base |-> Append(st.base, BaseMatch(row, st.counter)),
     adv |-> st.adv,
     counter |-> st.counter]

\* The league loop emitting an advanced row as the World-Cup loop does.
SplitLeagueRowWithAdvanced(st, row) ==
    [base |-> Append(st.base, BaseMatch(row, st.counter)),
     adv |-> Append(st.adv, AdvancedStats(row, st.counter)),
     counter |-> st.counter + 1]

SplitLeagueRow(st, row) ==
    [base |-> Append(st.base, BaseMatch(row, st.counter)),
     adv |-> st.adv,
     counter |-> st.counter + 1]

SplitWcRow(st, row) ==
    [base |-> Append(st.base, BaseMatch(row, st.counter)),
     adv |-> Append(st.adv, AdvancedStats(row, st.counter)),
     counter |-> st.counter + 1]

RECURSIVE SplitLeague(_, _)
SplitLeague(st, rows) ==
    IF rows = <<>> THEN st ELSE SplitLeague(SplitLeagueRow(st, Head(rows)), Tail(rows))

RECURSIVE SplitWc(_, _)
SplitWc(st, rows) ==
    IF rows = <<>> THEN st ELSE SplitWc(SplitWcRow(st, Head(rows)), Tail(rows))

\* The tables split_matches builds (its return value).
SplitTables(dir) ==
    LET s1 == IF Exists(dir["normalized_league_matches"])
              THEN SplitLeague(SplitStart, dir["normalized_league_matches"].rows)
              ELSE SplitStart
    IN IF Exists(dir["normalized_wc_matches"])
       THEN SplitWc(s1, dir["normalized_wc_matches"].rows)
       ELSE s1

\* split_matches writing its advanced rows over normalized_wc_matches.csv.
SplitMatchesOverSource(dir) ==
    LET t == SplitTables(dir)
    IN [dir EXCEPT !["db_matches_base"] = RecordsToCsv(t.base),
                   !["normalized_wc_matches"] = RecordsToCsv(t.adv)]

\* The directory split_matches leaves: db_matches_base.csv is always
\* written, db_match_stats_advanced.csv only when there are advanced rows.
SplitMatches(dir) ==
    LET t == SplitTables(dir)
        d1 == [dir EXCEPT !["db_matches_base"] = RecordsToCsv(t.base)]
    IN IF Len(t.adv) > 0
       THEN [d1 EXCEPT !["db_match_stats_advanced"] = RecordsToCsv(t.adv)]
       ELSE d1

(***************************************************************************)
(* Inputs: the cleaned match tables the cleaning stages can leave.         *)
(***************************************************************************)
MatchRows(names, competition) ==
    {[competition_name |-> competition, home_team |-> h, away_team |-> a] :
        h \in names, a \in names}

CleanFiles(rows, n) == {Absent} \cup {Table(t) : t \in SeqsUpTo(rows, n)}

NoSplit == [base |-> <<>>, adv |-> <<>>]

\* No exception has left validate_all.
NoError == [group |-> "none", outcome |-> "none"]

PipeOff ==
    /\ pc = "off"
    /\ runs = 0
    /\ results = {}
    /\ failed = {}
    /\ executed = <<>>
    /\ raised = "none"
    /\ exit_code = NoExit
    /\ vran = <<>>
    /\ verror = NoError
    /\ vreturn = FALSE

(***************************************************************************)
(* Spec: create_teams_table step by step, then normalize_matches and       *)
(* split_matches, each called once on the same directory.                  *)
(***************************************************************************)
Init ==
    /\ \E l \in CleanFiles(MatchRows(TeamNames, LeagueCompetition), MaxLeagueRows) :
       \E w \in CleanFiles(MatchRows(TeamNames, WcCompetition), MaxWcRows) :
          fs = [EmptyDir EXCEPT !["clean_league_matches"] = l,
                                !["clean_wc_matches"] = w]
    /\ step = "league_open"
    /\ trow = 0
    /\ teams_data = <<>>
    /\ team_id_counter = 1
    /\ seen_teams = {}
    /\ split_ret = NoSplit
    /\ PipeOff

Locals == [data |-> teams_data, seen |-> seen_teams, counter |-> team_id_counter]

SetLocals(st) ==
    /\ teams_data' = st.data
    /\ seen_teams' = st.seen
    /\ team_id_counter' = st.counter

LeagueDf == fs["clean_league_matches"].rows

WcDf == fs["clean_wc_matches"].rows

\* if os.path.exists(league_file): df = pd.read_csv(league_file)
TeamsOpenLeague ==
    /\ step = "league_open"
    /\ IF Exists(fs["clean_league_matches"]) /\ Len(LeagueDf) > 0
       THEN step' = "league_home" /\ trow' = 1
       ELSE step' = "wc_open" /\ trow' = 0
    /\ UNCHANGED <<fs, teams_data, team_id_counter, seen_teams, split_ret, pipeVars>>

TeamsLeagueHome ==
    /\ step = "league_home"
    /\ SetLocals(LeagueHome(Locals, LeagueDf[trow]))
    /\ step' = "league_away"
    /\ UNCHANGED <<fs, trow, split_ret, pipeVars>>

TeamsLeagueAway ==
    /\ step = "league_away"
    /\ SetLocals(LeagueAway(Locals, LeagueDf[trow]))
    /\ IF trow < Len(LeagueDf)
       THEN step' = "league_home" /\ trow' = trow + 1
       ELSE step' = "wc_open" /\ trow' = 0
    /\ UNCHANGED <<fs, split_ret, pipeVars>>

TeamsOpenWc ==
    /\ step = "wc_open"
    /\ IF Exists(fs["clean_wc_matches"]) /\ Len(WcDf) > 0
       THEN step' = "wc_home" /\ trow' = 1
       ELSE step' = "save" /\ trow' = 0
    /\ UNCHANGED <<fs, teams_data, team_id_counter, seen_teams, split_ret, pipeVars>>

TeamsWcHome ==
    /\ step = "wc_home"
    /\ SetLocals(WcHome(Locals, WcDf[trow]))
    /\ step' = "wc_away"
    /\ UNCHANGED <<fs, trow, split_ret, pipeVars>>

TeamsWcAway ==
    /\ step = "wc_away"
    /\ SetLocals(WcAway(Locals, WcDf[trow]))
    /\ IF trow < Len(WcDf)
       THEN step' = "wc_home" /\ trow' = trow + 1
       ELSE step' = "save" /\ trow' = 0
    /\ UNCHANGED <<fs, split_ret, pipeVars>>

\* teams_df = pd.DataFrame(teams_data); teams_df.to_csv(output_file)
TeamsSave ==
    /\ step = "save"
    /\ fs' = [fs EXCEPT !["ref_teams"] = RecordsToCsv(teams_data)]
    /\ step' = "normalize"
    /\ UNCHANGED <<trow, teams_data, team_id_counter, seen_teams, split_ret, pipeVars>>

CoreNormalize ==
    /\ step = "normalize"
    /\ LET r == NormalizeMatches(fs)
       IN /\ fs' = r.dir
          /\ step' = IF r.result = "ok" THEN "split" ELSE "aborted"
    /\ UNCHANGED <<trow, teams_data, team_id_counter, seen_teams, split_ret, pipeVars>>

CoreSplit ==
    /\ step = "split"
    /\ fs' = SplitMatches(fs)
    /\ split_ret' = [base |-> SplitTables(fs).base, adv |-> SplitTables(fs).adv]
    /\ step' = "finished"
    /\ UNCHANGED <<trow, teams_data, team_id_counter, seen_teams, pipeVars>>

Next ==
    \/ TeamsOpenLeague
    \/ TeamsLeagueHome
    \/ TeamsLeagueAway
    \/ TeamsOpenWc
    \/ TeamsWcHome
    \/ TeamsWcAway
    \/ TeamsSave
    \/ CoreNormalize
    \/ CoreSplit

Spec == Init /\ [][Next]_vars

(***************************************************************************)
(* create_players_table, normalize_players, the metric derivers            *)
(*                                                                         *)
(* A function's outcome is [dir, result, complete]: the directory it       *)
(* leaves; result "ok" (a table or tuple is returned), "none" (None is     *)
(* returned) or "raise"; complete is FALSE when the function or one of the *)
(* functions it calls took an error return or raised.                      *)
(***************************************************************************)
Outcome(dir, result, complete) == [dir |-> dir, result |-> result, complete |-> complete]

\* 'player_id': idx, without the + 1.
PlayerRowFromZero(teams, row, idx) ==
    [player_id |-> idx - 1, player_name |-> row.player,
     team_id |-> TeamNameToId(teams, row.team), team_name |-> row.team]

PlayerRow(teams, row, idx) ==
    [player_id |-> idx, player_name |-> row.player,
     team_id |-> TeamNameToId(teams, row.team), team_name |-> row.team]

\* A players table without rows is written header-less and the summary
\* line players_df['team_id'] then raises KeyError.
CreatePlayersTable(dir) ==
    IF ~Exists(dir["ref_teams"]) THEN Outcome(dir, "none", FALSE)
    ELSE IF ~Readable(dir["ref_teams"]) THEN Outcome(dir, "raise", FALSE)
    ELSE IF ~Exists(dir["clean_wc_players"]) THEN Outcome(dir, "none", FALSE)
    ELSE LET df == dir["clean_wc_players"].rows
             players_data == [i \in DOMAIN df |-> PlayerRow(dir["ref_teams"].rows, df[i], i)]
             d == [dir EXCEPT !["ref_players"] = RecordsToCsv(players_data)]
         IN IF players_data = <<>> THEN Outcome(d, "raise", FALSE)
            ELSE Outcome(d, "ok", TRUE)

\* create_reference_tables returns the tuple (teams_df, players_df).
CreateReferenceTables(dir) ==
    LET p == CreatePlayersTable(CreateTeamsTable(dir))
    IN IF p.result = "raise" THEN p ELSE Outcome(p.dir, "ok", p.result = "ok")

\* The lookup keyed by the player's name alone.
PlayerNameToId(players, player, team) ==
    LET hits == {i \in DOMAIN players : players[i].player_name = player}
    IN IF hits = {} THEN NaN
       ELSE players[CHOOSE i \in hits : \A j \in hits : j <= i].player_id

\* player_name_team_to_id.get((player, team)): the last row of a key wins.
PlayerKeyToId(players, player, team) ==
    LET hits == {i \in DOMAIN players :
                    players[i].player_name = player /\ players[i].team_name = team}
    IN IF hits = {} THEN NaN
       ELSE players[CHOOSE i \in hits : \A j \in hits : j <= i].player_id

PlayerIdToTeamId(players, id) ==
    LET hits == {i \in DOMAIN players : players[i].player_id = id}
    IN IF id = NaN \/ hits = {} THEN NaN
       ELSE players[CHOOSE i \in hits : \A j \in hits : j <= i].team_id

\* The two id columns put before the row's own columns.
NormalizedPlayerRow(players, row) ==
    LET id == PlayerKeyToId(players, row.player, row.team)
    IN [player_id |-> id, team_id |-> PlayerIdToTeamId(players, id)] @@ row

NormalizePlayers(dir) ==
    IF ~Exists(dir["ref_teams"]) \/ ~Exists(dir["ref_players"])
    THEN Outcome(dir, "none", FALSE)
    ELSE IF ~Readable(dir["ref_players"]) THEN Outcome(dir, "raise", FALSE)
    ELSE IF ~Exists(dir["clean_wc_players"]) THEN Outcome(dir, "none", FALSE)
    ELSE LET stats == dir["clean_wc_players"].rows
             rows == [i \in DOMAIN stats |->
                        NormalizedPlayerRow(dir["ref_players"].rows, stats[i])]
         IN Outcome([dir EXCEPT !["normalized_wc_players"] = Table(rows)], "ok", TRUE)

\* normalize_data returns the tuple (league_df, wc_df, players_df).
NormalizeData(dir) ==
    LET m == NormalizeMatches(dir)
    IN IF m.result = "raise" THEN Outcome(m.dir, "raise", FALSE)
       ELSE LET p == NormalizePlayers(m.dir)
            IN IF p.result = "raise" THEN p
               ELSE Outcome(p.dir, "ok", m.result = "ok" /\ p.result = "ok")

\* Series - Series: NaN where either is NaN.
Minus(a, b) == IF a = NaN \/ b = NaN THEN NaN ELSE a - b

\* Series.fillna(0), and "x if pd.notna(x) else 0".
FillZero(a) == IF a = NaN THEN 0 ELSE a

\* A ratio column holds fractions, kept exact as numerator and denominator;
\* NoRatio is its missing value (None from the lambda, NaN from a NaN operand,
\* an empty cell in the file).
NoRatio == [num |-> 0, den |-> 0]

\* a / b for b > 0.
Quotient(a, b) == IF a = NaN THEN NoRatio ELSE [num |-> a, den |-> b]

\* a / b without the factor 100.
PercentageUnscaled(a, b) == IF a = NaN THEN NoRatio ELSE [num |-> a, den |-> b]

\* a / b * 100 for b > 0.
Percentage(a, b) == IF a = NaN THEN NoRatio ELSE [num |-> a * 100, den |-> b]

\* The guard with 0 stored where the denominator is not positive.
WhenPositiveElseZero(d, value) == IF d # NaN /\ d > 0 THEN value ELSE [num |-> 0, den |-> 1]

\* "value if pd.notna(d) and d > 0 else None"
WhenPositive(d, value) == IF d # NaN /\ d > 0 THEN value ELSE NoRatio

\* "a - b if pd.notna(a) and pd.notna(b) else None"
WhenBoth(a, b) == IF a # NaN /\ b # NaN THEN a - b ELSE NaN

\* The result read off the home side only.
MatchResultHomeOrDraw(home_goals, away_goals) ==
    IF Gt(home_goals, away_goals) THEN "H" ELSE "D"

\* 'H' if home_goals > away_goals else ('A' if away_goals > home_goals else 'D')
MatchResult(home_goals, away_goals) ==
    IF Gt(home_goals, away_goals) THEN "H"
    ELSE IF Gt(away_goals, home_goals) THEN "A" ELSE "D"

\* The columns derive_match_metrics sets on a row of db_matches_base.csv; an
\* assignment df[c] = ... replaces a column c the table already has.  A row
\* of key columns only (its measurement columns projected away) is kept as
\* it is.
MatchMetrics(row) ==
    IF "home_goals" \notin DOMAIN row THEN row
    ELSE [goal_difference |-> Minus(row.home_goals, row.away_goals),
          total_goals |-> Plus(row.home_goals, row.away_goals),
          total_cards |-> FillZero(row.home_yellow) + FillZero(row.away_yellow)
                            + FillZero(row.home_red) + FillZero(row.away_red),
          home_shot_accuracy |->
              WhenPositive(row.home_shots, Percentage(row.home_sot, row.home_shots)),
          away_shot_accuracy |->
              WhenPositive(row.away_shots, Percentage(row.away_sot, row.away_shots)),
          result |-> MatchResult(row.home_goals, row.away_goals)] @@ row

AdvancedMetrics(row) ==
    IF "home_possession" \notin DOMAIN row THEN row
    ELSE [home_pass_accuracy |->
              WhenPositive(row.home_passes_attempted,
                           Percentage(row.home_passes_completed, row.home_passes_attempted)),
          away_pass_accuracy |->
              WhenPositive(row.away_passes_attempted,
                           Percentage(row.away_passes_completed, row.away_passes_attempted)),
          possession_delta |-> WhenBoth(row.home_possession, row.away_possession),
          xg_difference |-> WhenBoth(row.home_xg, row.away_xg)] @@ row

\* goal_contributions is set before contributions_per_game reads it.
PlayerMetrics(row) ==
    IF "goals" \notin DOMAIN row THEN row
    ELSE LET goal_contributions == FillZero(row.goals) + FillZero(row.assists)
         IN [goals_per_game |-> WhenPositive(row.games, Quotient(row.goals, row.games)),
             assists_per_game |-> WhenPositive(row.games, Quotient(row.assists, row.games)),
             shot_efficiency |-> WhenPositive(row.shots, Percentage(row.goals, row.shots)),
             sot_percentage |->
                 WhenPositive(row.shots, Percentage(row.shots_on_target, row.shots)),
             goal_contributions |-> goal_contributions,
             contributions_per_game |->
                 WhenPositive(row.games, Quotient(goal_contributions, row.games))] @@ row

\* The standings deriver setting goal_difference anew as well.
StandingsMetricsWithDifference(row) ==
    IF "played" \notin DOMAIN row THEN row
    ELSE [win_percentage |-> WhenPositive(row.played, Percentage(row.wins, row.played)),
          points_per_game |-> WhenPositive(row.played, Quotient(row.points, row.played)),
          goals_per_game |-> WhenPositive(row.played, Quotient(row.goals_for, row.played)),
          clean_sheets |-> WhenBoth(row.played, row.losses),
          goal_difference |-> Minus(row.goals_for, row.goals_against)] @@ row

StandingsMetrics(row) ==
    IF "played" \notin DOMAIN row THEN row
    ELSE [win_percentage |-> WhenPositive(row.played, Percentage(row.wins, row.played)),
          points_per_game |-> WhenPositive(row.played, Quotient(row.points, row.played)),
          goals_per_game |-> WhenPositive(row.played, Quotient(row.goals_for, row.played)),
          clean_sheets |-> WhenBoth(row.played, row.losses)] @@ row

\* Each deriver writes df with its new columns: the rows of df in their order.
DeriveMatchMetrics(dir) ==
    IF ~Exists(dir["db_matches_base"]) THEN Outcome(dir, "none", FALSE)
    ELSE IF ~Readable(dir["db_matches_base"]) THEN Outcome(dir, "raise", FALSE)
    ELSE LET d1 == [dir EXCEPT !["db_matches_base_enhanced"] =
                       Table([i \in DOMAIN dir["db_matches_base"].rows |->
                                MatchMetrics(dir["db_matches_base"].rows[i])])]
         IN IF ~Exists(d1["db_match_stats_advanced"]) THEN Outcome(d1, "ok", TRUE)
            ELSE IF ~Readable(d1["db_match_stats_advanced"]) THEN Outcome(d1, "raise", FALSE)
            ELSE Outcome([d1 EXCEPT !["db_match_stats_advanced_enhanced"] =
                             Table([i \in DOMAIN d1["db_match_stats_advanced"].rows |->
                                      AdvancedMetrics(d1["db_match_stats_advanced"].rows[i])])],
                         "ok", TRUE)

DerivePlayerMetrics(dir) ==
    IF ~Exists(dir["normalized_wc_players"]) THEN Outcome(dir, "none", FALSE)
    ELSE IF ~Readable(dir["normalized_wc_players"]) THEN Outcome(dir, "raise", FALSE)
    ELSE Outcome([dir EXCEPT !["db_players_stats_enhanced"] =
                     Table([i \in DOMAIN dir["normalized_wc_players"].rows |->
                              PlayerMetrics(dir["normalized_wc_players"].rows[i])])],
                 "ok", TRUE)

DeriveStandingsMetrics(dir) ==
    IF ~Exists(dir["clean_wc_standings"]) THEN Outcome(dir, "none", FALSE)
    ELSE IF ~Readable(dir["clean_wc_standings"]) THEN Outcome(dir, "raise", FALSE)
    ELSE Outcome([dir EXCEPT !["db_standings_enhanced"] =
                     Table([i \in DOMAIN dir["clean_wc_standings"].rows |->
                              StandingsMetrics(dir["clean_wc_standings"].rows[i])])],
                 "ok", TRUE)

\* matches_df, advanced_df = derive_match_metrics(...) raises TypeError when
\* derive_match_metrics returns None.
DeriveAllMetrics(dir) ==
    LET m == DeriveMatchMetrics(dir)
    IN IF m.result # "ok" THEN Outcome(m.dir, "raise", FALSE)
       ELSE LET p == DerivePlayerMetrics(m.dir)
            IN IF p.result = "raise" THEN p
               ELSE LET t == DeriveStandingsMetrics(p.dir)
                    IN IF t.result = "raise" THEN t
                       ELSE Outcome(t.dir, "ok", p.result = "ok" /\ t.result = "ok")

\* split_matches returns the tuple (matches_base_df, match_stats_advanced_df).
SplitMatchesStage(dir) == Outcome(SplitMatches(dir), "ok", TRUE)

(***************************************************************************)
(* validate_data                                                           *)
(*                                                                         *)
(* A group's outcome is "pass", "ValidationError" or "Error" (any other    *)
(* exception).  The file tests, the reads and the checks on key columns    *)
(* are modelled; the row-count bands and the checks on measurement columns *)
(* depend on data outside the rows modelled, so where the modelled checks  *)
(* pass a group may pass or raise ValidationError.                         *)
(***************************************************************************)
DataDependent == {"pass", "ValidationError"}

ValidateReferenceTables(dir) ==
    IF ~Exists(dir["ref_teams"]) \/ ~Exists(dir["ref_players"]) THEN {"ValidationError"}
    ELSE IF ~Readable(dir["ref_teams"]) \/ ~Readable(dir["ref_players"]) THEN {"Error"}
    ELSE LET teams == dir["ref_teams"].rows
             players == dir["ref_players"].rows
             team_ids == {teams[i].team_id : i \in DOMAIN teams}
             player_team_ids == {players[i].team_id : i \in DOMAIN players}
         IN IF NaN \in player_team_ids \/ ~(player_team_ids \subseteq team_ids)
            THEN {"ValidationError"}
            ELSE DataDependent

ValidateMatchesBase(dir) ==
    IF ~Exists(dir["db_matches_base_enhanced"]) THEN {"ValidationError"}
    ELSE IF ~Readable(dir["db_matches_base_enhanced"]) \/ ~Readable(dir["ref_teams"])
    THEN {"Error"}
    ELSE LET df == dir["db_matches_base_enhanced"].rows
             teams == dir["ref_teams"].rows
             valid_team_ids == {teams[i].team_id : i \in DOMAIN teams}
             home == {df[i].home_team_id : i \in DOMAIN df}
             away == {df[i].away_team_id : i \in DOMAIN df}
         IN IF \/ NaN \in home \cup away
               \/ ~(home \cup away \subseteq valid_team_ids)
               \/ \E i \in DOMAIN df : df[i].home_team_id = df[i].away_team_id
            THEN {"ValidationError"}
            ELSE DataDependent

ValidateMatchStatsAdvanced(dir) ==
    IF ~Exists(dir["db_match_stats_advanced_enhanced"]) THEN {"ValidationError"}
    ELSE IF \/ ~Readable(dir["db_match_stats_advanced_enhanced"])
            \/ ~Readable(dir["db_matches_base_enhanced"])
    THEN {"Error"}
    ELSE LET adv == dir["db_match_stats_advanced_enhanced"].rows
             base == dir["db_matches_base_enhanced"].rows
             valid_match_ids == {base[i].match_id : i \in DOMAIN base}
         IN IF ~({adv[i].match_id : i \in DOMAIN adv} \subseteq valid_match_ids)
            THEN {"ValidationError"}
            ELSE DataDependent

ValidatePlayersStats(dir) ==
    IF ~Exists(dir["db_players_stats_enhanced"]) THEN {"ValidationError"}
    ELSE IF \/ ~Readable(dir["db_players_stats_enhanced"])
            \/ ~Readable(dir["ref_players"])
    THEN {"Error"}
    ELSE LET df == dir["db_players_stats_enhanced"].rows
             ref == dir["ref_players"].rows
             valid_player_ids == {ref[i].player_id : i \in DOMAIN ref}
         IN IF ~({df[i].player_id : i \in DOMAIN df} \subseteq valid_player_ids)
            THEN {"ValidationError"}
            ELSE DataDependent

ValidateStandings(dir) ==
    IF ~Exists(dir["db_standings_enhanced"]) THEN {"ValidationError"}
    ELSE IF ~Readable(dir["db_standings_enhanced"]) THEN {"Error"}
    ELSE DataDependent

ValidationGroups ==
    <<"reference_tables", "matches_base", "match_stats_advanced",
      "players_stats", "standings">>

GroupOutcomes(dir, group) ==
    CASE group = "reference_tables" -> ValidateReferenceTables(dir)
      [] group = "matches_base" -> ValidateMatchesBase(dir)
      [] group = "match_stats_advanced" -> ValidateMatchStatsAdvanced(dir)
      [] group = "players_stats" -> ValidatePlayersStats(dir)
      [] group = "standings" -> ValidateStandings(dir)

\* The call validate_all makes after the groups in ran have passed.
GroupToRun(ran) == ValidationGroups[Len(ran) + 1]

\* validate_all going on after a group raised.
GoesOnAfterRaise(ran, outcome) == Len(ran) + 1 < Len(ValidationGroups)

\* Whether validate_all goes on to another group after this outcome.
GoesOn(ran, outcome) == outcome = "pass" /\ Len(ran) + 1 < Len(ValidationGroups)

(***************************************************************************)
(* run_pipeline                                                            *)
(***************************************************************************)
Stages ==
    <<"league_matches", "wc_matches", "wc_standings", "wc_players", "ref_tables",
      "normalization", "split_matches", "derived_metrics", "validation">>

StageIndex(stage) == CHOOSE i \in DOMAIN Stages : Stages[i] = stage

\* The try block running on after a stage raised.
AfterStageIgnoringRaise(stage, result) ==
    IF StageIndex(stage) < Len(Stages) THEN Stages[StageIndex(stage) + 1] ELSE "summary"

\* Where run_pipeline goes after a stage: an exception leaves the try block
\* for "return 1"; any return value, None included, goes to the next step.
AfterStage(stage, result) ==
    IF result = "raise" THEN "returned"
    ELSE IF StageIndex(stage) < Len(Stages) THEN Stages[StageIndex(stage) + 1]
    ELSE "summary"

\* The summary returning 0 without counting.
ExitCodeAlwaysZero(res) == 0

\* success_count == total_count
ExitCode(res) == IF Cardinality(res) = Len(Stages) THEN 0 ELSE 1

\* Team "C" plays no pipeline fixture: a player of "C" is a mapping miss.
PlayerRows == {[player |-> p, team |-> t] : p \in PlayerNames, t \in {"A", "C"}}

StandingRows == {[group |-> "Group A", rank |-> 1, team |-> "A"]}

\* The pipeline is run on tables of one fixture; create_teams_table,
\* normalize_matches and split_matches are run on all fixtures in Spec.
PipeFixture(competition) ==
    {[competition_name |-> competition, home_team |-> "A", away_team |-> "B"]}

\* A cleaning stage either writes its table and returns it, or returns None
\* and writes nothing.
CleanOutcomes(dir, file, tables) ==
    {Outcome([dir EXCEPT ![file] = Table(t)], "ok", TRUE) : t \in tables}
        \cup {Outcome(dir, "none", FALSE)}

CleanLeaguesOutcomes(dir) ==
    CleanOutcomes(dir, "clean_league_matches",
                  SeqsUpTo(PipeFixture(LeagueCompetition), PipeLeagueRows))

CleanWcMatchesOutcomes(dir) ==
    CleanOutcomes(dir, "clean_wc_matches",
                  SeqsUpTo(PipeFixture(WcCompetition), PipeWcRows))

CleanWcStandingsOutcomes(dir) ==
    CleanOutcomes(dir, "clean_wc_standings", {<<r>> : r \in StandingRows})

CleanWcPlayersOutcomes(dir) ==
    CleanOutcomes(dir, "clean_wc_players", SeqsUpTo(PlayerRows, PipePlayerRows))

\* SpecPipeline starts with data/clean existing and empty.
PipeInit ==
    /\ fs = EmptyDir
    /\ step = "off"
    /\ trow = 0
    /\ teams_data = <<>>
    /\ team_id_counter = 1
    /\ seen_teams = {}
    /\ split_ret = NoSplit
    /\ pc = "idle"
    /\ runs = 0
    /\ results = {}
    /\ failed = {}
    /\ executed = <<>>
    /\ raised = "none"
    /\ exit_code = NoExit
    /\ vran = <<>>
    /\ verror = NoError
    /\ vreturn = FALSE

RunStart ==
    /\ pc \in {"idle", "returned"}
    /\ runs < MaxRuns
    /\ runs' = runs + 1
    /\ pc' = Stages[1]
    /\ results' = {}
    /\ failed' = {}
    /\ executed' = <<>>
    /\ raised' = "none"
    /\ exit_code' = NoExit
    /\ vran' = <<>>
    /\ verror' = NoError
    /\ vreturn' = FALSE
    /\ UNCHANGED <<fs, coreVars>>

\* results[stage] = stage_function() inside the try block.
StageDone(stage, r) ==
    /\ fs' = r.dir
    /\ executed' = Append(executed, stage)
    /\ results' = IF r.result = "ok" THEN results \cup {stage} ELSE results
    /\ failed' = IF r.result # "ok" \/ ~r.complete THEN failed \cup {stage} ELSE failed
    /\ raised' = IF r.result = "raise" THEN stage ELSE raised
    /\ exit_code' = IF r.result = "raise" THEN 1 ELSE exit_code
    /\ pc' = AfterStage(stage, r.result)
    /\ UNCHANGED <<runs, vran, verror, vreturn, coreVars>>

CleanLeagues ==
    /\ pc = "league_matches"
    /\ \E r \in CleanLeaguesOutcomes(fs) : StageDone("league_matches", r)

CleanWcMatches ==
    /\ pc = "wc_matches"
    /\ \E r \in CleanWcMatchesOutcomes(fs) : StageDone("wc_matches", r)

CleanWcStandings ==
    /\ pc = "wc_standings"
    /\ \E r \in CleanWcStandingsOutcomes(fs) : StageDone("wc_standings", r)

CleanWcPlayers ==
    /\ pc = "wc_players"
    /\ \E r \in CleanWcPlayersOutcomes(fs) : StageDone("wc_players", r)

RefTablesStage ==
    /\ pc = "ref_tables"
    /\ StageDone("ref_tables", CreateReferenceTables(fs))

NormalizationStage ==
    /\ pc = "normalization"
    /\ StageDone("normalization", NormalizeData(fs))

SplitStage ==
    /\ pc = "split_matches"
    /\ StageDone("split_matches", SplitMatchesStage(fs))

MetricsStage ==
    /\ pc = "derived_metrics"
    /\ StageDone("derived_metrics", DeriveAllMetrics(fs))

\* One check group of validate_all.  The last group passing makes
\* validate_all return True; a group raising ends validate_all and, the
\* exception passing through run_pipeline's try block, the run with code 1.
ValidateGroup ==
    /\ pc = "validation"
    /\ Len(vran) < Len(ValidationGroups)
    /\ LET group == GroupToRun(vran)
       IN \E o \in GroupOutcomes(fs, group) :
            /\ vran' = Append(vran, [group |-> group, outcome |-> o])
            /\ executed' = IF vran = <<>> THEN Append(executed, "validation") ELSE executed
            /\ verror' = IF o # "pass" /\ verror = NoError
                          THEN [group |-> group, outcome |-> o] ELSE verror
            /\ IF GoesOn(vran, o)
               THEN UNCHANGED <<pc, results, failed, raised, exit_code, vreturn>>
               ELSE IF verror' = NoError
               THEN /\ vreturn' = TRUE
                    /\ results' = results \cup {"validation"}
                    /\ pc' = AfterStage("validation", "ok")
                    /\ UNCHANGED <<failed, raised, exit_code>>
               ELSE /\ raised' = "validation"
                    /\ failed' = failed \cup {"validation"}
                    /\ exit_code' = 1
                    /\ pc' = AfterStage("validation", "raise")
                    /\ UNCHANGED <<results, vreturn>>
    /\ UNCHANGED <<fs, runs, coreVars>>

Summary ==
    /\ pc = "summary"
    /\ exit_code' = ExitCode(results)
    /\ pc' = "returned"
    /\ UNCHANGED <<fs, runs, results, failed, executed, raised, vran, verror, vreturn, coreVars>>

PipeNext ==
    \/ RunStart
    \/ CleanLeagues
    \/ CleanWcMatches
    \/ CleanWcStandings
    \/ CleanWcPlayers
    \/ RefTablesStage
    \/ NormalizationStage
    \/ SplitStage
    \/ MetricsStage
    \/ ValidateGroup
    \/ Summary

SpecPipeline == PipeInit /\ [][PipeNext]_vars

(***************************************************************************)
(* Properties of create_teams_table, normalize_matches and split_matches   *)
(***************************************************************************)
Scanning == step \in {"league_open", "league_home", "league_away",
                      "wc_open", "wc_home", "wc_away"}

\* The rows a stage reads from a file: none when the file is absent.
RowsOf(name) == IF Exists(fs[name]) THEN fs[name].rows ELSE <<>>

\* The team names in the order the spec scans them: league rows, home before
\* away, then World-Cup rows, home before away.
Sightings ==
    LET l == RowsOf("clean_league_matches")
        w == RowsOf("clean_wc_matches")
        side(t, k) == IF k % 2 = 1 THEN t[(k + 1) \div 2].home_team
                      ELSE t[k \div 2].away_team
    IN [i \in 1..(2 * Len(l) + 2 * Len(w)) |->
          IF i <= 2 * Len(l)
          THEN [name |-> side(l, i), tag |-> "league"]
          ELSE [name |-> side(w, i - 2 * Len(l)), tag |-> "international"]]

FirstSightings(s) ==
    {i \in DOMAIN s : \A j \in 1..(i - 1) : s[j].name # s[i].name}

IsReferenceTeams(t) ==
    LET s == Sightings
        F == FirstSightings(s)
        rank == [i \in F |-> Cardinality({j \in F : j <= i})]
    IN /\ Len(t) = Cardinality(F)
       /\ \A i \in F :
             /\ t[rank[i]].team_id = rank[i]
             /\ t[rank[i]].team_name = s[i].name
             /\ t[rank[i]].competition_type = s[i].tag

\* C1: the table create_teams_table returns, and the ref_teams.csv it
\* writes, is the table of the reference fold: one row per distinct name in
\* order of first sighting (league rows, then World-Cup rows, home before
\* away), numbered from 1, tagged by the source of the first sighting.
C1_ReferenceFold ==
    /\ ~Scanning => IsReferenceTeams(teams_data)
    /\ step \notin {"save"} /\ ~Scanning => fs["ref_teams"].rows = teams_data

\* League fixtures A-B, A-B and the World-Cup fixture B-C: A:1 and B:2 are
\* league teams, the repeated sightings add no row, C:3 is international.
C1_Witness ==
    /\ step = "normalize"
    /\ [i \in DOMAIN LeagueDf |-> <<LeagueDf[i].home_team, LeagueDf[i].away_team>>]
          = << <<"A", "B">>, <<"A", "B">> >>
    /\ [i \in DOMAIN WcDf |-> <<WcDf[i].home_team, WcDf[i].away_team>>]
          = << <<"B", "C">> >>
    /\ [i \in DOMAIN teams_data |->
          <<teams_data[i].team_name, teams_data[i].team_id, teams_data[i].competition_type>>]
          = << <<"A", 1, "league">>, <<"B", 2, "league">>, <<"C", 3, "international">> >>

\* C2: at every step of create_teams_table the team_id values issued so far
\* are exactly 1..n, without gap or duplicate, n being the number of Teams
\* rows, and team_id_counter = n + 1.
C2_ContiguousIds ==
    /\ {teams_data[i].team_id : i \in DOMAIN teams_data} = 1..Len(teams_data)
    /\ \A i, j \in DOMAIN teams_data :
          teams_data[i].team_id = teams_data[j].team_id => i = j
    /\ team_id_counter = Len(teams_data) + 1

\* In the middle of the World-Cup loop, after ids were issued in both loops.
C2_Witness ==
    /\ step = "wc_away"
    /\ \E i, j \in DOMAIN teams_data :
          /\ teams_data[i].competition_type = "league"
          /\ teams_data[j].competition_type = "international"

MatchNames ==
    UNION {{r.home_team, r.away_team} :
             r \in SeqToSet(RowsOf("clean_league_matches")) \cup
                   SeqToSet(RowsOf("clean_wc_matches"))}

\* C3: every name that is home_team or away_team of a cleaned league or
\* World-Cup row has exactly one row in the Teams table written.
C3_NameToIdTotalAndSingle ==
    step \in {"normalize", "split", "finished", "aborted"} =>
        \A n \in MatchNames :
            Cardinality({i \in DOMAIN fs["ref_teams"].rows :
                            fs["ref_teams"].rows[i].team_name = n}) = 1

\* A name that plays in both sources, and one first seen as a World-Cup
\* away team.
C3_Witness ==
    /\ step = "normalize"
    /\ \E l \in SeqToSet(RowsOf("clean_league_matches")) :
       \E w \in SeqToSet(RowsOf("clean_wc_matches")) :
          /\ w.home_team \in {l.home_team, l.away_team}
          /\ w.away_team \notin {l.home_team, l.away_team}
          /\ w.away_team # w.home_team

NormLeague == RowsOf("normalized_league_matches")

NormWc == RowsOf("normalized_wc_matches")

SameMatch(b, r) ==
    /\ b.competition_name = r.competition_name
    /\ b.home_team_id = r.home_team_id
    /\ b.away_team_id = r.away_team_id

\* C4: split_matches numbers the stream "normalized league rows in file
\* order, then normalized World-Cup rows in file order" 1, 2, 3, ...; every
\* league match_id is below every World-Cup match_id and the largest
\* match_id is the number of input matches.
C4_SequentialMatchIds ==
    step = "finished" =>
        LET base == split_ret.base
        IN /\ Len(base) = Len(NormLeague) + Len(NormWc)
           /\ \A i \in DOMAIN base : base[i].match_id = i
           /\ \A i \in DOMAIN NormLeague : SameMatch(base[i], NormLeague[i])
           /\ \A j \in DOMAIN NormWc : SameMatch(base[Len(NormLeague) + j], NormWc[j])
           /\ \A i, j \in DOMAIN base :
                 /\ base[i].competition_name # WcCompetition
                 /\ base[j].competition_name = WcCompetition
                 => base[i].match_id < base[j].match_id
           /\ \A i \in DOMAIN base : base[i].match_id <= Len(NormLeague) + Len(NormWc)
           /\ base # <<>> => \E i \in DOMAIN base :
                                base[i].match_id = Len(NormLeague) + Len(NormWc)
           /\ fs["db_matches_base"].rows = base

C4_Witness ==
    /\ step = "finished"
    /\ Len(NormLeague) = 2
    /\ Len(NormWc) = 1
    /\ split_ret.base[Len(split_ret.base)].match_id = 3

\* C5: split_matches builds L + W MatchBase rows, one per input match, and
\* W MatchStatsAdvanced rows: one per World-Cup match, with that match's
\* match_id, and none for a league match.
C5_RowCounts ==
    step = "finished" =>
        LET base == split_ret.base
            adv == split_ret.adv
            L == Len(NormLeague)
            W == Len(NormWc)
        IN /\ Len(base) = L + W
           /\ Len(adv) = W
           /\ \A j \in 1..W : adv[j].match_id = base[L + j].match_id
           /\ \A i \in 1..L : \A k \in DOMAIN adv : adv[k].match_id # base[i].match_id

C5_Witness ==
    /\ step = "finished"
    /\ Len(NormLeague) >= 1
    /\ Len(NormWc) >= 1
    /\ Len(split_ret.adv) = Len(NormWc)
    /\ Len(split_ret.base) > Len(split_ret.adv)

(***************************************************************************)
(* Properties of run_pipeline and validate_all                             *)
(***************************************************************************)
WorldCupRows(base) == {i \in DOMAIN base : base[i].competition_name = WcCompetition}

AdvancedIsWorldCup(base, adv) ==
    /\ \A k \in DOMAIN adv :
          \E i \in WorldCupRows(base) : base[i].match_id = adv[k].match_id
    /\ Len(adv) = Cardinality(WorldCupRows(base))

\* C6: after every pipeline run, each advanced row in the output directory
\* has the match_id of a World-Cup row of MatchBase and there are as many
\* advanced rows as World-Cup rows of MatchBase (none when the run had no
\* World-Cup match), for the tables split_matches writes and for the
\* enhanced tables.
C6_AdvancedRowsAreWorldCup ==
    pc = "returned" =>
        /\ AdvancedIsWorldCup(RowsOf("db_matches_base"), RowsOf("db_match_stats_advanced"))
        /\ AdvancedIsWorldCup(RowsOf("db_matches_base_enhanced"),
                              RowsOf("db_match_stats_advanced_enhanced"))

CleanNames == {"clean_league_matches", "clean_wc_matches", "clean_wc_standings",
               "clean_wc_players"}

OutputTables == {"ref_teams", "ref_players", "db_matches_base_enhanced",
                 "db_match_stats_advanced_enhanced", "db_players_stats_enhanced",
                 "db_standings_enhanced"}

\* The directory holding the cleaned inputs of dir and nothing else.
CleanOnly(dir) == [n \in FileNames |-> IF n \in CleanNames THEN dir[n] ELSE Absent]

Then(r, stage(_)) == IF r.result = "raise" THEN r ELSE stage(r.dir)

\* The directory stages 5 to 8 leave when started on the cleaned inputs alone.
FromScratch(dir) ==
    Then(Then(Then(CreateReferenceTables(CleanOnly(dir)), NormalizeData),
              SplitMatchesStage), DeriveAllMetrics).dir

\* C7: the six output tables after a run are those of a run on the same
\* cleaned inputs started in an empty output directory: nothing an earlier
\* run wrote is read or survives.
C7_ReproducedFromScratch ==
    pc = "returned" /\ "derived_metrics" \in results =>
        \A n \in OutputTables : fs[n] = FromScratch(fs)[n]

AllPassed ==
    /\ Len(vran) = 5
    /\ \A i \in DOMAIN vran : vran[i].outcome = "pass"

\* C8: run_pipeline returns 0 only if every one of the nine stages completed
\* and validate_all passed every group; a stage that returned no table or
\* raised, or a group that raised, makes it return a non-zero code.
C8_ZeroOnlyOnFullSuccess ==
    pc = "returned" =>
        /\ exit_code \in {0, 1}
        /\ exit_code = 0 =>
              /\ failed = {}
              /\ raised = "none"
              /\ executed = Stages
              /\ AllPassed
              /\ vreturn
        /\ (failed # {} \/ raised # "none" \/ verror # NoError) => exit_code # 0

C8_Witness ==
    /\ pc = "returned"
    /\ exit_code = 0
    /\ Len(executed) = 9
    /\ AllPassed

C10_ValidationOrder ==
    LET order == <<"reference_tables", "matches_base", "match_stats_advanced",
                   "players_stats", "standings">>
        n == Len(vran)
    IN /\ n <= 5
       /\ \A i \in 1..n : vran[i].group = order[i]
       /\ \A i \in 1..(n - 1) : vran[i].outcome = "pass"
       /\ n > 0 /\ vran[n].outcome # "pass" =>
             /\ verror = vran[n]
             /\ pc = "returned"
             /\ ~vreturn
       /\ verror # NoError => n > 0 /\ verror = vran[n] /\ vran[n].outcome # "pass"
       /\ vreturn <=> AllPassed

\* The third group raised after two groups passed.
C10_Witness ==
    /\ Len(vran) = 3
    /\ vran[1].outcome = "pass"
    /\ vran[2].outcome = "pass"
    /\ verror = [group |-> "match_stats_advanced", outcome |-> "ValidationError"]
    /\ pc = "returned"

(***************************************************************************)
(* validate_data on full-size tables                                       *)
(*                                                                         *)
(* The row-count bands of the validators are met only by tables of their   *)
(* real size.  A table here is a few leading rows written out (rows)       *)
(* followed by fill further rows that are generated from their index and   *)
(* break no check; Frame is the DataFrame pd.read_csv returns for it.      *)
(* Every table has the columns its validator reads.  Possession values are *)
(* kept in halves of a percent, so that 40.5 is a whole number.            *)
(***************************************************************************)
BigTable(rows, fill) == [state |-> "table", rows |-> rows, fill |-> fill]

Halves(percent) == 2 * percent

FillTeam(i) == [team_id |-> i, competition_type |-> "league"]

FillPlayer(i) == [player_id |-> i, team_id |-> 10 + (i % 90), age |-> 25]

FillMatch(i) ==
    [match_id |-> i, home_team_id |-> 10, away_team_id |-> 11,
     home_goals |-> 1, away_goals |-> 0, home_shots |-> 3, away_shots |-> 3,
     home_sot |-> 1, away_sot |-> 1, home_shot_accuracy |-> 33,
     date |-> "2022-08-05", result |-> "H"]

FillAdvanced(i) ==
    [match_id |-> i, home_possession |-> Halves(50), away_possession |-> Halves(50),
     home_xg |-> 1, away_xg |-> 1,
     home_passes_completed |-> 300, home_passes_attempted |-> 400,
     away_passes_completed |-> 300, away_passes_attempted |-> 400,
     home_pass_accuracy |-> 75]

FillPlayerStat(i) ==
    [player_id |-> i, team_id |-> 10, goals |-> 1, assists |-> 0, shots |-> 3,
     shots_on_target |-> 1, minutes |-> 90, games |-> 1,
     passes_completed |-> 20, passes |-> 30, passes_pct |-> 66,
     shot_efficiency |-> 33]

\* Four ranks in each group, as in the World Cup group stage.
FillStanding(i) ==
    [group |-> ((i - 1) \div 4) + 1, rank |-> ((i - 1) % 4) + 1, played |-> 3,
     wins |-> 1, draws |-> 1, losses |-> 1, points |-> 4, goals_for |-> 2,
     goals_against |-> 2, win_percentage |-> 33]

FillRow(name, i) ==
    CASE name = "ref_teams" -> FillTeam(i)
      [] name = "ref_players" -> FillPlayer(i)
      [] name = "db_matches_base_enhanced" -> FillMatch(i)
      [] name = "db_match_stats_advanced_enhanced" -> FillAdvanced(i)
      [] name = "db_players_stats_enhanced" -> FillPlayerStat(i)
      [] name = "db_standings_enhanced" -> FillStanding(i)

\* pd.read_csv(file)
Frame(name, file) ==
    [i \in 1..(Len(file.rows) + file.fill) |->
        IF i <= Len(file.rows) THEN file.rows[i] ELSE FillRow(name, i)]

ColumnSet(df, c) == {df[i][c] : i \in DOMAIN df}

\* df[c].duplicated().any()
Duplicated(df, c) == Cardinality(ColumnSet(df, c)) # Len(df)

\* What a validator call does: it returns, raises ValidationError with the
\* message of the check that failed, or raises another exception.
Passed == [kind |-> "pass", check |-> "none"]

Invalid(check) == [kind |-> "ValidationError", check |-> check]

Raises(exception) == [kind |-> "Error", check |-> exception]

\* pd.read_csv on a path: FileNotFoundError or EmptyDataError.
ReadError(file) ==
    IF Exists(file) THEN Raises("EmptyDataError") ELSE Raises("FileNotFoundError")

validate_reference_tables(dir) ==
    IF ~Exists(dir["ref_teams"]) THEN Invalid("Missing file: ref_teams.csv")
    ELSE IF ~Exists(dir["ref_players"]) THEN Invalid("Missing file: ref_players.csv")
    ELSE IF ~Readable(dir["ref_teams"]) THEN ReadError(dir["ref_teams"])
    ELSE IF ~Readable(dir["ref_players"]) THEN ReadError(dir["ref_players"])
    ELSE
    LET teams_df == Frame("ref_teams", dir["ref_teams"])
        players_df == Frame("ref_players", dir["ref_players"])
    IN  IF NaN \in ColumnSet(teams_df, "team_id")
        THEN Invalid("ref_teams contains NULL team_id")
        ELSE IF Duplicated(teams_df, "team_id")
        THEN Invalid("Duplicate team_ids found")
        ELSE IF Len(teams_df) < 100 \/ Len(teams_df) > 150
        THEN Invalid("Unexpected team count")
        ELSE IF \E i \in DOMAIN teams_df :
                    teams_df[i].competition_type \notin {"league", "international"}
        THEN Invalid("Invalid competition_type values found")
        ELSE IF NaN \in ColumnSet(players_df, "player_id")
        THEN Invalid("ref_players contains NULL player_id")
        ELSE IF NaN \in ColumnSet(players_df, "team_id")
        THEN Invalid("ref_players contains NULL team_id (FK violation)")
        ELSE IF Duplicated(players_df, "player_id")
        THEN Invalid("Duplicate player_ids found")
        ELSE IF ColumnSet(players_df, "team_id") \ ColumnSet(teams_df, "team_id") # {}
        THEN Invalid("Players reference non-existent team_ids")
        ELSE IF Len(players_df) < 600 \/ Len(players_df) > 800
        THEN Invalid("Unexpected player count")
        ELSE IF \E i \in DOMAIN players_df :
                    Lt(players_df[i].age, 15) \/ Gt(players_df[i].age, 45)
        THEN Invalid("Invalid age range")
        ELSE Passed

\* The self-match check left out.
SelfMatchesIgnored(df) == FALSE

\* len(df[df['home_team_id'] == df['away_team_id']]) > 0
SelfMatches(df) == \E i \in DOMAIN df : df[i].home_team_id = df[i].away_team_id

\* The match count band with its upper end left open.
MatchCountUnexpectedBelow(n) == n < 1800

MatchCountUnexpected(n) == n < 1800 \/ n > 2000

\* pd.to_datetime(df['date'], errors='raise') raises on a text that is no date.
IsDate(text) == text = "2022-08-05"

validate_matches_base(dir) ==
    IF ~Exists(dir["db_matches_base_enhanced"])
    THEN Invalid("Missing file: db_matches_base_enhanced.csv")
    ELSE IF ~Readable(dir["db_matches_base_enhanced"])
    THEN ReadError(dir["db_matches_base_enhanced"])
    ELSE IF ~Readable(dir["ref_teams"]) THEN ReadError(dir["ref_teams"])
    ELSE
    LET df == Frame("db_matches_base_enhanced", dir["db_matches_base_enhanced"])
        teams_df == Frame("ref_teams", dir["ref_teams"])
        valid_team_ids == ColumnSet(teams_df, "team_id")
    IN  IF NaN \in ColumnSet(df, "match_id") THEN Invalid("Matches contain NULL match_id")
        ELSE IF Duplicated(df, "match_id") THEN Invalid("Duplicate match_ids found")
        ELSE IF MatchCountUnexpected(Len(df)) THEN Invalid("Unexpected match count")
        ELSE IF NaN \in ColumnSet(df, "home_team_id")
        THEN Invalid("Matches contain NULL home_team_id (FK violation)")
        ELSE IF NaN \in ColumnSet(df, "away_team_id")
        THEN Invalid("Matches contain NULL away_team_id (FK violation)")
        ELSE IF ColumnSet(df, "home_team_id") \ valid_team_ids # {}
        THEN Invalid("Matches reference non-existent home_team_ids")
        ELSE IF ColumnSet(df, "away_team_id") \ valid_team_ids # {}
        THEN Invalid("Matches reference non-existent away_team_ids")
        ELSE IF SelfMatches(df)
        THEN Invalid("Found self-matches (home_team_id == away_team_id)")
        ELSE IF \E i \in DOMAIN df : Lt(df[i].home_goals, 0)
        THEN Invalid("Negative home_goals found")
        ELSE IF \E i \in DOMAIN df : Lt(df[i].away_goals, 0)
        THEN Invalid("Negative away_goals found")
        ELSE IF \E i \in DOMAIN df : Lt(df[i].home_shots, 0)
        THEN Invalid("Negative home_shots found")
        ELSE IF \E i \in DOMAIN df : Gt(df[i].home_sot, df[i].home_shots)
        THEN Invalid("home_sot > home_shots")
        ELSE IF \E i \in DOMAIN df : Gt(df[i].away_sot, df[i].away_shots)
        THEN Invalid("away_sot > away_shots")
        ELSE IF \E i \in DOMAIN df : Gt(df[i].home_shot_accuracy, 100)
        THEN Invalid("home_shot_accuracy > 100%")
        ELSE IF \E i \in DOMAIN df : ~IsDate(df[i].date)
        THEN Invalid("Invalid date format")
        ELSE IF \E i \in DOMAIN df : df[i].result \notin {"H", "A", "D", None}
        THEN Invalid("Invalid result values")
        ELSE Passed

\* The tolerance band taken without its end points.
PossessionSumOffOpenBand(possession_sum) ==
    possession_sum <= Halves(98) \/ possession_sum >= Halves(102)

\* (possession_sum < 98) | (possession_sum > 102)
PossessionSumOff(possession_sum) ==
    possession_sum < Halves(98) \/ possession_sum > Halves(102)

validate_match_stats_advanced(dir) ==
    IF ~Exists(dir["db_match_stats_advanced_enhanced"])
    THEN Invalid("Missing file: db_match_stats_advanced_enhanced.csv")
    ELSE IF ~Readable(dir["db_match_stats_advanced_enhanced"])
    THEN ReadError(dir["db_match_stats_advanced_enhanced"])
    ELSE IF ~Readable(dir["db_matches_base_enhanced"])
    THEN ReadError(dir["db_matches_base_enhanced"])
    ELSE
    LET adv_df == Frame("db_match_stats_advanced_enhanced",
                        dir["db_match_stats_advanced_enhanced"])
        base_df == Frame("db_matches_base_enhanced", dir["db_matches_base_enhanced"])
        valid_match_ids == ColumnSet(base_df, "match_id")
    IN  IF Len(adv_df) # 64 THEN Invalid("Unexpected advanced stats count")
        ELSE IF ColumnSet(adv_df, "match_id") \ valid_match_ids # {}
        THEN Invalid("Advanced stats reference non-existent match_ids")
        ELSE IF \E i \in DOMAIN adv_df : Gt(adv_df[i].home_possession, Halves(100))
        THEN Invalid("home_possession > 100%")
        ELSE IF \E i \in DOMAIN adv_df : Gt(adv_df[i].away_possession, Halves(100))
        THEN Invalid("away_possession > 100%")
        ELSE IF \E i \in DOMAIN adv_df :
                    PossessionSumOff(RowSum(adv_df[i].home_possession,
                                            adv_df[i].away_possession))
        THEN Invalid("Possession sum != 100% (tolerance 2%)")
        ELSE IF \E i \in DOMAIN adv_df : Lt(adv_df[i].home_xg, 0)
        THEN Invalid("Negative home_xg found")
        ELSE IF \E i \in DOMAIN adv_df : Lt(adv_df[i].away_xg, 0)
        THEN Invalid("Negative away_xg found")
        ELSE IF \E i \in DOMAIN adv_df :
                    Gt(adv_df[i].home_passes_completed, adv_df[i].home_passes_attempted)
        THEN Invalid("home_passes_completed > attempted")
        ELSE IF \E i \in DOMAIN adv_df : Gt(adv_df[i].home_pass_accuracy, 100)
        THEN Invalid("home_pass_accuracy > 100%")
        ELSE Passed

\* for col in numeric_cols: (df[col].dropna() < 0).any()
NegativeColumn(df, cols) ==
    LET hit == {k \in DOMAIN cols : \E i \in DOMAIN df : Lt(df[i][cols[k]], 0)}
    IN IF hit = {} THEN None ELSE cols[CHOOSE k \in hit : \A j \in hit : k <= j]

validate_players_stats(dir) ==
    IF ~Exists(dir["db_players_stats_enhanced"])
    THEN Invalid("Missing file: db_players_stats_enhanced.csv")
    ELSE IF ~Readable(dir["db_players_stats_enhanced"])
    THEN ReadError(dir["db_players_stats_enhanced"])
    ELSE IF ~Readable(dir["ref_players"]) THEN ReadError(dir["ref_players"])
    ELSE
    LET df == Frame("db_players_stats_enhanced", dir["db_players_stats_enhanced"])
        ref_df == Frame("ref_players", dir["ref_players"])
        valid_player_ids == ColumnSet(ref_df, "player_id")
        negative == NegativeColumn(df, <<"goals", "assists", "shots",
                                         "shots_on_target", "minutes", "games">>)
    IN  IF ColumnSet(df, "player_id") \ valid_player_ids # {}
        THEN Invalid("Player stats reference non-existent player_ids")
        ELSE IF Len(df) < 600 \/ Len(df) > 800
        THEN Invalid("Unexpected player stats count")
        ELSE IF negative # None THEN Invalid("Negative values found: " \o negative)
        ELSE IF \E i \in DOMAIN df : Gt(df[i].shots_on_target, df[i].shots)
        THEN Invalid("shots_on_target > shots")
        ELSE IF \E i \in DOMAIN df : Gt(df[i].passes_completed, df[i].passes)
        THEN Invalid("passes_completed > passes")
        ELSE IF \E i \in DOMAIN df : Gt(df[i].goals, df[i].shots)
        THEN Invalid("goals > shots")
        ELSE IF \E i \in DOMAIN df : Gt(df[i].passes_pct, 100)
        THEN Invalid("passes_pct > 100%")
        ELSE IF \E i \in DOMAIN df : Gt(df[i].shot_efficiency, 100)
        THEN Invalid("shot_efficiency > 100%")
        ELSE Passed

\* len(group_df['rank'].unique()) != len(group_df) for a group of
\* df['group'].unique(); no row equals a NaN group.
DuplicateRanks(df) ==
    \E g \in ColumnSet(df, "group") :
        LET group_df == {i \in DOMAIN df : g # NaN /\ df[i].group = g}
        IN Cardinality({df[i].rank : i \in group_df}) # Cardinality(group_df)

\* The points column compared with itself.
ExpectedPointsAsGiven(row) == row.points

\* expected_points = df['wins'] * 3 + df['draws']
ExpectedPoints(row) ==
    Plus(IF row.wins = NaN THEN NaN ELSE row.wins * 3, row.draws)

validate_standings(dir) ==
    IF ~Exists(dir["db_standings_enhanced"])
    THEN Invalid("Missing file: db_standings_enhanced.csv")
    ELSE IF ~Readable(dir["db_standings_enhanced"])
    THEN ReadError(dir["db_standings_enhanced"])
    ELSE
    LET df == Frame("db_standings_enhanced", dir["db_standings_enhanced"])
        negative == NegativeColumn(df, <<"played", "wins", "draws", "losses",
                                         "goals_for", "goals_against", "points">>)
    IN  IF Len(df) # 32 THEN Invalid("Unexpected standings count")
        ELSE IF \E i \in DOMAIN df :
                    Ne(Plus(Plus(df[i].wins, df[i].draws), df[i].losses), df[i].played)
        THEN Invalid("wins + draws + losses != played")
        ELSE IF \E i \in DOMAIN df :
                    Ne(df[i].points, ExpectedPoints(df[i]))
        THEN Invalid("Incorrect points calculation")
        ELSE IF negative # None THEN Invalid("Negative values found: " \o negative)
        ELSE IF \E i \in DOMAIN df : Gt(df[i].wins, df[i].played)
        THEN Invalid("wins > played")
        ELSE IF \E i \in DOMAIN df : Gt(df[i].draws, df[i].played)
        THEN Invalid("draws > played")
        ELSE IF \E i \in DOMAIN df : Gt(df[i].losses, df[i].played)
        THEN Invalid("losses > played")
        ELSE IF DuplicateRanks(df) THEN Invalid("Duplicate ranks found")
        ELSE IF \E i \in DOMAIN df : Gt(df[i].win_percentage, 100)
        THEN Invalid("win_percentage > 100%")
        ELSE Passed

\* The five check groups by the names validate_all calls them in.
validate_group(group, dir) ==
    CASE group = "reference_tables" -> validate_reference_tables(dir)
      [] group = "matches_base" -> validate_matches_base(dir)
      [] group = "match_stats_advanced" -> validate_match_stats_advanced(dir)
      [] group = "players_stats" -> validate_players_stats(dir)
      [] group = "standings" -> validate_standings(dir)

(***************************************************************************)
(* The tables the validators are called on                                 *)
(*                                                                         *)
(* A written-out row is a generated row with some cells replaced.          *)
(***************************************************************************)
Override(row, cells) ==
    [c \in DOMAIN row |-> IF c \in DOMAIN cells THEN cells[c] ELSE row[c]]

TeamCells ==
    {[team_id |-> NaN], [team_id |-> 50], [competition_type |-> "international"],
     [competition_type |-> "club"]}

PlayerCells ==
    {[player_id |-> NaN], [player_id |-> 50], [team_id |-> NaN], [team_id |-> 999],
     [age |-> NaN], [age |-> 14], [age |-> 15], [age |-> 45], [age |-> 46]}

MatchCells ==
    {[match_id |-> NaN], [match_id |-> 50],
     [home_team_id |-> NaN], [away_team_id |-> NaN],
     [home_team_id |-> 999], [away_team_id |-> 999], [home_team_id |-> 11],
     [home_goals |-> -1], [home_goals |-> NaN], [away_goals |-> -1],
     [away_goals |-> NaN], [home_shots |-> -1], [home_shots |-> NaN],
     [away_shots |-> -1], [away_shots |-> -1, away_sot |-> NaN],
     [away_shots |-> -1, away_sot |-> -1], [home_sot |-> -1], [away_sot |-> -1],
     [home_sot |-> 5], [away_sot |-> 5], [home_shot_accuracy |-> 101],
     [date |-> "not a date"], [result |-> "X"], [result |-> None]}

Possession(home, away) == [home_possession |-> home, away_possession |-> away]

AdvancedCells ==
    {[match_id |-> 9999],
     Possession(122, 81), Possession(Halves(49), Halves(49)),
     Possession(Halves(51), Halves(51)), Possession(Halves(45), Halves(45)),
     Possession(97, Halves(49)), Possession(103, Halves(51)),
     Possession(Halves(101), Halves(-1)), Possession(Halves(-1), Halves(100)),
     Possession(NaN, Halves(99)), Possession(NaN, NaN),
     [home_xg |-> -1], [home_xg |-> NaN], [away_xg |-> -1],
     [home_passes_completed |-> 401], [away_passes_completed |-> 401],
     [home_passes_completed |-> NaN], [home_pass_accuracy |-> 101]}

PlayerStatCells ==
    {[player_id |-> 9999], [goals |-> -1], [minutes |-> NaN], [shots_on_target |-> 4],
     [passes_completed |-> 31], [goals |-> 4], [passes_pct |-> 101],
     [shot_efficiency |-> 101]}

StandingCells ==
    {[points |-> 5], [points |-> 3], [points |-> NaN], [wins |-> 2],
     [wins |-> 2, losses |-> 0, points |-> 7],
     [wins |-> -1, losses |-> 3, points |-> -2], [played |-> NaN],
     [rank |-> 2], [group |-> NaN], [group |-> NaN, rank |-> 2],
     [goals_for |-> -1], [goals_for |-> NaN], [win_percentage |-> 101]}

Cells(name) ==
    CASE name = "ref_teams" -> TeamCells
      [] name = "ref_players" -> PlayerCells
      [] name = "db_matches_base_enhanced" -> MatchCells
      [] name = "db_match_stats_advanced_enhanced" -> AdvancedCells
      [] name = "db_players_stats_enhanced" -> PlayerStatCells
      [] name = "db_standings_enhanced" -> StandingCells

ProbeRows(name, i) ==
    {FillRow(name, i)} \cup {Override(FillRow(name, i), c) : c \in Cells(name)}

Probes(name) ==
    UNION {{s \in [1..k -> UNION {ProbeRows(name, i) : i \in 1..k}] :
               \A i \in 1..k : s[i] \in ProbeRows(name, i)} : k \in 0..MaxProbes}

\* A file under test: missing, header-less, or a table at an end of its
\* row-count band (fill rows after the rows written out).
FilesUnderTest(name, fills) ==
    {Absent, Blank} \cup {BigTable(rows, n) : rows \in Probes(name), n \in fills}

\* A file under test beside a clean second table, and a clean table under
\* test beside a missing or header-less second file.
Dirs(name, fills, name2, fill2) ==
    LET Dir(file, file2) ==
            [n \in FileNames |-> IF n = name THEN file
                                 ELSE IF n = name2 THEN file2 ELSE Absent]
    IN {Dir(f, BigTable(<<>>, fill2)) : f \in FilesUnderTest(name, fills)}
       \cup {Dir(BigTable(<<>>, CHOOSE n \in fills : \A m \in fills : m <= n), f2) :
                f2 \in {Absent, Blank}}

ValidatorDirs ==
    Dirs("ref_teams", {99, 150}, "ref_players", 600)
    \cup Dirs("ref_players", {599, 800}, "ref_teams", 100)
    \cup Dirs("db_matches_base_enhanced", {1799, 2000}, "ref_teams", 100)
    \cup Dirs("db_match_stats_advanced_enhanced", {63, 64}, "db_matches_base_enhanced", 1800)
    \cup Dirs("db_players_stats_enhanced", {599, 800}, "ref_players", 800)
    \cup Dirs("db_standings_enhanced", {31, 32}, "db_standings_enhanced", 32)

(***************************************************************************)
(* SpecValidate: one validator function called on a directory              *)
(***************************************************************************)
ValidateInit ==
    /\ fs \in ValidatorDirs
    /\ step = "off"
    /\ trow = 0
    /\ teams_data = <<>>
    /\ team_id_counter = 1
    /\ seen_teams = {}
    /\ split_ret = NoSplit
    /\ pc = "call"
    /\ runs = 0
    /\ results = {}
    /\ failed = {}
    /\ executed = <<>>
    /\ raised = "none"
    /\ exit_code = NoExit
    /\ vran = <<>>
    /\ verror = NoError
    /\ vreturn = FALSE

\* The call of one group function; vran keeps what it did.
Called(group) ==
    /\ pc = "call"
    /\ LET r == validate_group(group, fs)
       IN /\ vran' = <<[group |-> group, outcome |-> r.kind, check |-> r.check]>>
          /\ verror' = IF r.kind = "pass" THEN NoError
                        ELSE [group |-> group, outcome |-> r.kind]
    /\ pc' = "called"
    /\ UNCHANGED <<fs, runs, results, failed, executed, raised, exit_code, vreturn,
                   coreVars>>

CallValidateReferenceTables == Called("reference_tables")

CallValidateMatchesBase == Called("matches_base")

CallValidateMatchStatsAdvanced == Called("match_stats_advanced")

CallValidatePlayersStats == Called("players_stats")

CallValidateStandings == Called("standings")

ValidateNext ==
    \/ CallValidateReferenceTables
    \/ CallValidateMatchesBase
    \/ CallValidateMatchStatsAdvanced
    \/ CallValidatePlayersStats
    \/ CallValidateStandings

SpecValidate == ValidateInit /\ [][ValidateNext]_vars

(***************************************************************************)
(* Properties of the validators                                            *)
(***************************************************************************)
\* The group function that was called, and what it did.
CalledGroup == IF pc = "called" THEN vran[1].group ELSE "none"

CallOutcome == vran[1].outcome

CallCheck == vran[1].check

\* The files a call of the group read are tables.
ReadsTables(names) == \A n \in names : Readable(fs[n])

MatchesDf == Frame("db_matches_base_enhanced", fs["db_matches_base_enhanced"])

TeamsDf == Frame("ref_teams", fs["ref_teams"])

\* A row with a null team id, a team id of no ref_teams row, or one team twice.
BrokenTeamKeys(df, teams_df) ==
    LET ids == ColumnSet(df, "home_team_id") \cup ColumnSet(df, "away_team_id")
    IN \/ NaN \in ids
       \/ ~(ids \subseteq ColumnSet(teams_df, "team_id"))
       \/ \E i \in DOMAIN df : df[i].home_team_id = df[i].away_team_id

\* C11: whenever validate_matches_base passes, every row of the match table
\* has non-null home and away team ids that are team ids of ref_teams rows and
\* differ from each other; a table with a null, dangling or self-matching id
\* is rejected with ValidationError.
C11_TeamKeysEnforced ==
    (CalledGroup = "matches_base"
        /\ ReadsTables({"db_matches_base_enhanced", "ref_teams"}))
    => LET df == MatchesDf
           teams_df == TeamsDf
           broken == BrokenTeamKeys(df, teams_df)
       IN /\ CallOutcome = "pass" => ~broken
          /\ broken => CallOutcome = "ValidationError"

\* validate_matches_base has passed a table of 1800 rows, one written out.
C11_Witness ==
    /\ CalledGroup = "matches_base"
    /\ CallOutcome = "pass"
    /\ Len(fs["db_matches_base_enhanced"].rows) = 1
    /\ Len(MatchesDf) = 1800

AdvancedDf ==
    Frame("db_match_stats_advanced_enhanced", fs["db_match_stats_advanced_enhanced"])

PossessionSumMessage == "Possession sum != 100% (tolerance 2%)"

\* The checks validate_match_stats_advanced makes before the possession sum.
BeforePossessionSum ==
    {"Unexpected advanced stats count",
     "Advanced stats reference non-existent match_ids",
     "home_possession > 100%", "away_possession > 100%"}

\* C14: the possession-sum check accepts a row exactly when home_possession +
\* away_possession lies in [98, 102]: 61.0 + 40.5, 98 and 102 are accepted, 90
\* is rejected with the possession-sum ValidationError.  (A null possession
\* is left out of the sum, so a row with one is set apart.)
C14_PossessionSumBand ==
    (CalledGroup = "match_stats_advanced"
        /\ ReadsTables({"db_match_stats_advanced_enhanced", "db_matches_base_enhanced"})
        /\ CallCheck \notin BeforePossessionSum)
    => LET df == AdvancedDf
           off == \E i \in DOMAIN df :
                     /\ df[i].home_possession # NaN
                     /\ df[i].away_possession # NaN
                     /\ ~(Halves(98) <= df[i].home_possession + df[i].away_possession
                          /\ df[i].home_possession + df[i].away_possession <= Halves(102))
           nulls == \E i \in DOMAIN df :
                       df[i].home_possession = NaN \/ df[i].away_possession = NaN
       IN /\ off => (CallOutcome = "ValidationError" /\ CallCheck = PossessionSumMessage)
          /\ CallCheck = PossessionSumMessage => (off \/ nulls)

\* A table of 64 rows whose first row has possessions 61.0 and 40.5 passed.
C14_Witness ==
    /\ CalledGroup = "match_stats_advanced"
    /\ CallOutcome = "pass"
    /\ Len(fs["db_match_stats_advanced_enhanced"].rows) = 1
    /\ fs["db_match_stats_advanced_enhanced"].rows[1].home_possession = 122
    /\ fs["db_match_stats_advanced_enhanced"].rows[1].away_possession = 81

\* C15: whenever validate_match_stats_advanced passes, every non-null
\* home_possession and away_possession lies in [0, 100].
C15_PossessionRange ==
    (CalledGroup = "match_stats_advanced" /\ CallOutcome = "pass")
    => LET df == AdvancedDf
       IN \A i \in DOMAIN df :
             /\ df[i].home_possession # NaN
                   => (0 <= df[i].home_possession /\ df[i].home_possession <= Halves(100))
             /\ df[i].away_possession # NaN
                   => (0 <= df[i].away_possession /\ df[i].away_possession <= Halves(100))

\* C16: whenever validate_match_stats_advanced passes, passes_completed <=
\* passes_attempted holds on the home side and on the away side of every row
\* where both values are present.
C16_PassesCompletedWithinAttempted ==
    (CalledGroup = "match_stats_advanced" /\ CallOutcome = "pass")
    => LET df == AdvancedDf
       IN \A i \in DOMAIN df :
             /\ (df[i].home_passes_completed # NaN /\ df[i].home_passes_attempted # NaN)
                   => df[i].home_passes_completed <= df[i].home_passes_attempted
             /\ (df[i].away_passes_completed # NaN /\ df[i].away_passes_attempted # NaN)
                   => df[i].away_passes_completed <= df[i].away_passes_attempted

\* C17: whenever validate_matches_base passes, home_goals and away_goals of
\* every row are present and non-negative and every present shot counter
\* (home_shots, away_shots, home_sot, away_sot) is non-negative.
C17_GoalsAndShotsNonNegative ==
    (CalledGroup = "matches_base" /\ CallOutcome = "pass")
    => LET df == MatchesDf
       IN \A i \in DOMAIN df :
             /\ df[i].home_goals # NaN /\ df[i].home_goals >= 0
             /\ df[i].away_goals # NaN /\ df[i].away_goals >= 0
             /\ \A c \in {"home_shots", "away_shots", "home_sot", "away_sot"} :
                   df[i][c] # NaN => df[i][c] >= 0

StandingsDf == Frame("db_standings_enhanced", fs["db_standings_enhanced"])

\* The values a points cell is changed to.
PointValues == {NaN, -1, 0, 1, 3, 4, 5, 7, 9}

\* The directory with the points of row i of the standings changed to v.
PointsChanged(dir, i, v) ==
    LET df == Frame("db_standings_enhanced", dir["db_standings_enhanced"])
        head == [k \in 1..i |-> IF k = i THEN [df[k] EXCEPT !.points = v] ELSE df[k]]
    IN [dir EXCEPT !["db_standings_enhanced"] = BigTable(head, Len(df) - i)]

\* C18: whenever validate_standings passes, every row has wins + draws +
\* losses = played and points = 3 * wins + draws, no count is negative, wins,
\* draws and losses are at most played, and no rank occurs twice in a group;
\* and the passing table with the points of any one row changed to another
\* value is rejected with ValidationError.
C18_StandingsArithmetic ==
    (CalledGroup = "standings" /\ CallOutcome = "pass")
    => LET df == StandingsDf
       IN /\ \A i \in DOMAIN df :
                /\ \A c \in {"played", "wins", "draws", "losses", "points"} :
                      df[i][c] # NaN /\ df[i][c] >= 0
                /\ \A c \in {"goals_for", "goals_against"} : df[i][c] = NaN \/ df[i][c] >= 0
                /\ df[i].wins + df[i].draws + df[i].losses = df[i].played
                /\ df[i].points = df[i].wins * 3 + df[i].draws
                /\ df[i].wins <= df[i].played
                /\ df[i].draws <= df[i].played
                /\ df[i].losses <= df[i].played
          /\ \A i, j \in DOMAIN df :
                (i # j /\ df[i].group # NaN /\ df[i].group = df[j].group)
                    => df[i].rank # df[j].rank
          /\ \A i \in DOMAIN df : \A v \in PointValues \ {df[i].points} :
                validate_standings(PointsChanged(fs, i, v)).kind = "ValidationError"

\* validate_standings has passed a table of 32 rows whose first row, written
\* out, has two wins, a draw and seven points.
C18_Witness ==
    /\ CalledGroup = "standings"
    /\ CallOutcome = "pass"
    /\ Len(StandingsDf) = 32
    /\ Len(fs["db_standings_enhanced"].rows) = 1
    /\ fs["db_standings_enhanced"].rows[1].wins = 2
    /\ fs["db_standings_enhanced"].rows[1].points = 7

\* The number of rows of a file that is a table.
RowCount(name) == Len(fs[name].rows) + fs[name].fill

\* The row-count band of each file, as <<file, least, most>>.
InBand(name, least, most) == least <= RowCount(name) /\ RowCount(name) <= most

\* The bands the called group checks.
GroupInBand(group) ==
    CASE group = "reference_tables" ->
            InBand("ref_teams", 100, 150) /\ InBand("ref_players", 600, 800)
      [] group = "matches_base" -> InBand("db_matches_base_enhanced", 1800, 2000)
      [] group = "match_stats_advanced" ->
            InBand("db_match_stats_advanced_enhanced", 64, 64)
      [] group = "players_stats" -> InBand("db_players_stats_enhanced", 600, 800)
      [] group = "standings" -> InBand("db_standings_enhanced", 32, 32)

\* The files the called group reads.
GroupReads(group) ==
    CASE group = "reference_tables" -> {"ref_teams", "ref_players"}
      [] group = "matches_base" -> {"db_matches_base_enhanced", "ref_teams"}
      [] group = "match_stats_advanced" ->
            {"db_match_stats_advanced_enhanced", "db_matches_base_enhanced"}
      [] group = "players_stats" -> {"db_players_stats_enhanced", "ref_players"}
      [] group = "standings" -> {"db_standings_enhanced"}

\* C19: a row count outside its band is a validation failure: a group that
\* read its tables raises ValidationError unless ref_teams has 100..150 rows,
\* ref_players 600..800, the match table 1800..2000, the advanced table 64,
\* the player statistics 600..800 and the standings 32.
C19_RowCountBands ==
    (pc = "called" /\ ReadsTables(GroupReads(CalledGroup)))
    => /\ CallOutcome = "pass" => GroupInBand(CalledGroup)
       /\ ~GroupInBand(CalledGroup) => CallOutcome = "ValidationError"

\* validate_matches_base has rejected a table of 2001 rows for its count.
C19_Witness ==
    /\ CalledGroup = "matches_base"
    /\ ReadsTables(GroupReads("matches_base"))
    /\ RowCount("db_matches_base_enhanced") = 2001
    /\ CallOutcome = "ValidationError"
    /\ CallCheck = "Unexpected match count"

\* C20: a validation group function called on any state of the directory
\* returns or raises ValidationError, and never ends with another error.
C20_OnlyValidationErrors ==
    pc = "called" => CallOutcome \in {"pass", "ValidationError"}

(***************************************************************************)
(* SpecStages: the stages from create_reference_tables on, with a cleaning *)
(* stage of the match tables called again after the reference tables were  *)
(* built, so that a cleaned table can name a team ref_teams does not hold.  *)
(***************************************************************************)
StageFixtures(competition) ==
    {[competition_name |-> competition, home_team |-> h, away_team |-> "B"] :
        h \in {"A", "C"}}

StageTables(competition) == SeqsUpTo(StageFixtures(competition), 1)

\* The four cleaning stages have written their tables.
StagesInit ==
    /\ \E league \in StageTables(LeagueCompetition), wc \in StageTables(WcCompetition),
          players \in SeqsUpTo(PlayerRows, PipePlayerRows), standing \in StandingRows :
          fs = [EmptyDir EXCEPT !["clean_league_matches"] = Table(league),
                                !["clean_wc_matches"] = Table(wc),
                                !["clean_wc_players"] = Table(players),
                                !["clean_wc_standings"] = Table(<<standing>>)]
    /\ step = "off"
    /\ trow = 0
    /\ teams_data = <<>>
    /\ team_id_counter = 1
    /\ seen_teams = {}
    /\ split_ret = NoSplit
    /\ pc = "ref_tables"
    /\ runs = 1
    /\ results = {"league_matches", "wc_matches", "wc_standings", "wc_players"}
    /\ failed = {}
    /\ executed = <<"league_matches", "wc_matches", "wc_standings", "wc_players">>
    /\ raised = "none"
    /\ exit_code = NoExit
    /\ vran = <<>>
    /\ verror = NoError
    /\ vreturn = FALSE

Times(stage) == Cardinality({i \in DOMAIN executed : executed[i] = stage})

\* A cleaning stage called once more, between steps 5 and 6.
Reclean(stage, file, competition) ==
    /\ pc = "normalization"
    /\ Times(stage) < 2
    /\ \E t \in StageTables(competition) : fs' = [fs EXCEPT ![file] = Table(t)]
    /\ executed' = Append(executed, stage)
    /\ UNCHANGED <<pc, runs, results, failed, raised, exit_code, vran, verror, vreturn,
                   coreVars>>

RecleanLeagues == Reclean("league_matches", "clean_league_matches", LeagueCompetition)

RecleanWcMatches == Reclean("wc_matches", "clean_wc_matches", WcCompetition)

StagesNext ==
    \/ RefTablesStage
    \/ RecleanLeagues
    \/ RecleanWcMatches
    \/ NormalizationStage
    \/ SplitStage
    \/ MetricsStage
    \/ ValidateGroup
    \/ Summary

SpecStages == StagesInit /\ [][StagesNext]_vars

(***************************************************************************)
(* Properties of the stages on tables with a mapping miss                  *)
(***************************************************************************)
Ran(stage) == stage \in SeqToSet(executed)

RefTeamNames ==
    {fs["ref_teams"].rows[i].team_name : i \in DOMAIN fs["ref_teams"].rows}

\* A cleaned match row names a team that ref_teams.csv does not hold.
MatchMiss ==
    \E f \in {"clean_league_matches", "clean_wc_matches"} :
        \E i \in DOMAIN fs[f].rows :
            fs[f].rows[i].home_team \notin RefTeamNames
                \/ fs[f].rows[i].away_team \notin RefTeamNames

\* A player row names a team that ref_teams.csv does not hold.
PlayerMiss ==
    \E i \in DOMAIN fs["clean_wc_players"].rows :
        fs["clean_wc_players"].rows[i].team \notin RefTeamNames

\* The normalized file has the cleaned file's rows, with a null id exactly
\* where the team name is not in ref_teams.csv.
NullIdsForMisses(clean, normalized) ==
    /\ Readable(fs[normalized])
    /\ Len(fs[normalized].rows) = Len(fs[clean].rows)
    /\ \A i \in DOMAIN fs[clean].rows :
          /\ fs[normalized].rows[i].home_team_id = NaN
                <=> fs[clean].rows[i].home_team \notin RefTeamNames
          /\ fs[normalized].rows[i].away_team_id = NaN
                <=> fs[clean].rows[i].away_team \notin RefTeamNames

Sources(stage) ==
    CASE stage = "ref_tables" ->
            {"clean_league_matches", "clean_wc_matches", "clean_wc_players"}
      [] stage = "normalization" ->
            {"ref_teams", "ref_players", "clean_league_matches", "clean_wc_matches",
             "clean_wc_players"}
      [] stage = "split_matches" ->
            {"normalized_league_matches", "normalized_wc_matches"}

\* C13: a core stage that is run while a file it reads is absent fails, and
\* writes no file.  (The claim also has every dependent stage aborted.)
C13_MissingSourceAborts ==
    [][\A stage \in {"ref_tables", "normalization", "split_matches"} :
          (pc = stage /\ \E f \in Sources(stage) : ~Exists(fs[f]))
              => (fs' = fs /\ stage \in failed')]_vars

(***************************************************************************)
(* Properties of the validators on tables with missing values              *)
(***************************************************************************)
\* The advanced table of dir with every missing possession filled in so that
\* the row's possessions add up to 100.
PossessionFilled(dir) ==
    LET file == dir["db_match_stats_advanced_enhanced"]
        filled(row) ==
            IF row.home_possession = NaN /\ row.away_possession = NaN
            THEN Override(row, Possession(Halves(50), Halves(50)))
            ELSE IF row.home_possession = NaN
            THEN Override(row, Possession(Halves(100) - row.away_possession,
                                          row.away_possession))
            ELSE IF row.away_possession = NaN
            THEN Override(row, Possession(row.home_possession,
                                          Halves(100) - row.home_possession))
            ELSE row
    IN [dir EXCEPT !["db_match_stats_advanced_enhanced"] =
           BigTable([i \in DOMAIN file.rows |-> filled(file.rows[i])], file.fill)]

\* C30: a row with a null home_possession or away_possession is never counted
\* as a possession-sum violation: the possession-sum ValidationError is raised
\* only for a row with both values present, and a table that passes once its
\* null possessions are filled in passes as it is.
C30_NullPossessionSkipped ==
    (CalledGroup = "match_stats_advanced"
        /\ ReadsTables({"db_match_stats_advanced_enhanced", "db_matches_base_enhanced"}))
    => LET df == AdvancedDf
           off == \E i \in DOMAIN df :
                     /\ df[i].home_possession # NaN
                     /\ df[i].away_possession # NaN
                     /\ PossessionSumOff(df[i].home_possession + df[i].away_possession)
       IN /\ CallCheck = PossessionSumMessage => off
          /\ validate_match_stats_advanced(PossessionFilled(fs)).kind = "pass"
                => CallOutcome = "pass"

(***************************************************************************)
(* Properties of the files each stage writes                               *)
(***************************************************************************)
\* The files a stage creates or overwrites; validate_all writes none.
Owns(stage) ==
    CASE stage = "ref_tables" -> {"ref_teams", "ref_players"}
      [] stage = "normalization" ->
            {"normalized_league_matches", "normalized_wc_matches",
             "normalized_wc_players"}
      [] stage = "split_matches" -> {"db_matches_base", "db_match_stats_advanced"}
      [] stage = "derived_metrics" ->
            {"db_matches_base_enhanced", "db_match_stats_advanced_enhanced",
             "db_players_stats_enhanced", "db_standings_enhanced"}
      [] stage = "validation" -> {}

\* C21: a step of create_reference_tables, normalize_data, split_matches or
\* derive_all_metrics changes no file but the stage's own output files, and a
\* step of validate_all changes no file, whether the group passes or raises.
C21_OnlyOwnOutputsWritten ==
    [][\A stage \in {"ref_tables", "normalization", "split_matches",
                     "derived_metrics", "validation"} :
          pc = stage => \A f \in FileNames \ Owns(stage) : fs'[f] = fs[f]]_vars

\* A run ended by a validation failure, with the tables of the four stages
\* before it in place.
C21_Witness ==
    /\ pc = "returned"
    /\ raised = "validation"
    /\ verror.outcome = "ValidationError"
    /\ \A f \in {"clean_league_matches", "clean_wc_matches", "ref_teams",
                 "normalized_league_matches", "normalized_wc_matches",
                 "db_matches_base", "db_match_stats_advanced",
                 "db_matches_base_enhanced", "db_match_stats_advanced_enhanced"} :
          Readable(fs[f]) /\ fs[f].rows # <<>>

(***************************************************************************)
(* Properties of a second run on the same cleaned tables                   *)
(***************************************************************************)
CoreStages == {"ref_tables", "normalization", "split_matches", "derived_metrics"}

\* Stages 5 to 8 run once more on a directory.
CoreRun(dir) ==
    Then(Then(Then(CreateReferenceTables(dir), NormalizeData), SplitMatchesStage),
         DeriveAllMetrics)

\* A directory that a run of stages 5 to 8 leaves as it is.
LeftAsItIs(dir) == CoreRun(dir).result # "raise" /\ CoreRun(dir).dir = dir

\* C22: when stages 5 to 8 of a run have completed, the directory is one that
\* another run of these stages on the same cleaned tables leaves as it is, file
\* by file and row by row, with team_id, player_id and match_id numbered from
\* 1 again; and every step of a stage taken on such a directory changes no
\* file.
C22_SecondRunIdentical ==
    /\ [](pc = "validation" /\ vran = <<>> =>
            /\ LeftAsItIs(fs)
            /\ \A i \in DOMAIN fs["ref_teams"].rows : fs["ref_teams"].rows[i].team_id = i
            /\ \A i \in DOMAIN fs["ref_players"].rows :
                  fs["ref_players"].rows[i].player_id = i
            /\ \A i \in DOMAIN fs["db_matches_base"].rows :
                  fs["db_matches_base"].rows[i].match_id = i)
    /\ [][(pc \in CoreStages /\ LeftAsItIs(fs)) => fs' = fs]_vars

\* The second run on a directory has completed stages 5 to 8, with two
\* teams, a player and two matches.
C22_Witness ==
    /\ runs = 2
    /\ pc = "validation"
    /\ vran = <<>>
    /\ Len(fs["ref_teams"].rows) = 2
    /\ Len(fs["ref_players"].rows) = 1
    /\ Len(fs["db_matches_base"].rows) = 2
    /\ fs["db_matches_base"].rows[2].match_id = 2

(***************************************************************************)
(* The tables the metric derivers are called on                            *)
(*                                                                         *)
(* Rows carry the measurement columns the derivers read.  Row i of a table *)
(* is a regular row of index i with some cells replaced.  Possessions are  *)
(* in halves of a percent and expected goals in tenths.                    *)
(***************************************************************************)
BaseRow(i) ==
    [match_id |-> i, home_goals |-> 2, away_goals |-> 1, home_shots |-> 4,
     away_shots |-> 3, home_sot |-> 2, away_sot |-> 1, home_yellow |-> 1,
     away_yellow |-> 0, home_red |-> 0, away_red |-> 1]

BaseCells ==
    {[home_goals |-> 1], [home_goals |-> 0], [home_goals |-> NaN],
     [away_goals |-> NaN], [home_goals |-> NaN, away_goals |-> NaN],
     [home_shots |-> 0], [home_shots |-> NaN], [away_shots |-> 0],
     [away_shots |-> NaN], [home_sot |-> NaN], [home_shots |-> 0, home_sot |-> 0],
     [home_yellow |-> NaN, away_red |-> NaN],
     [home_yellow |-> NaN, away_yellow |-> NaN, home_red |-> NaN, away_red |-> NaN]}

AdvancedRow(i) ==
    [match_id |-> i, home_xg |-> 21, away_xg |-> 8,
     home_possession |-> Halves(55), away_possession |-> Halves(45),
     home_passes_completed |-> 300, home_passes_attempted |-> 400,
     away_passes_completed |-> 200, away_passes_attempted |-> 250]

AdvancedRowCells ==
    {[home_passes_attempted |-> 0], [home_passes_attempted |-> NaN],
     [away_passes_attempted |-> 0], [away_passes_attempted |-> NaN],
     [home_passes_completed |-> NaN],
     [home_passes_completed |-> 0, home_passes_attempted |-> 0],
     [home_possession |-> NaN], [away_possession |-> NaN],
     [home_possession |-> NaN, away_possession |-> NaN],
     [home_xg |-> NaN], [away_xg |-> NaN], [home_xg |-> 8]}

PlayerStatRow(i) ==
    [player_id |-> i, team_id |-> 1, player |-> "p", team |-> "A", games |-> 3,
     goals |-> 2, assists |-> 1, shots |-> 4, shots_on_target |-> 3]

PlayerStatRowCells ==
    {[shots |-> 0], [shots |-> NaN], [shots |-> 0, goals |-> 0, shots_on_target |-> 0],
     [games |-> 0], [games |-> NaN], [goals |-> NaN], [assists |-> NaN],
     [goals |-> NaN, assists |-> NaN], [goals |-> 0], [shots_on_target |-> NaN],
     [goals |-> 4]}

StandingRow(i) ==
    [group |-> "Group A", rank |-> i, team |-> "A", played |-> 3, wins |-> 1,
     draws |-> 1, losses |-> 1, goals_for |-> 2, goals_against |-> 2,
     goal_difference |-> 0, points |-> 4]

StandingRowCells ==
    {[played |-> 0, wins |-> 0, draws |-> 0, losses |-> 0, points |-> 0, goals_for |-> 0],
     [played |-> NaN], [played |-> 0], [wins |-> NaN], [points |-> NaN],
     [goals_for |-> NaN], [losses |-> NaN], [played |-> NaN, losses |-> NaN],
     [wins |-> 3, draws |-> 0, losses |-> 0, points |-> 9]}

DeriveRow(name, i) ==
    CASE name = "db_matches_base" -> BaseRow(i)
      [] name = "db_match_stats_advanced" -> AdvancedRow(i)
      [] name = "normalized_wc_players" -> PlayerStatRow(i)
      [] name = "clean_wc_standings" -> StandingRow(i)

DeriveCells(name) ==
    CASE name = "db_matches_base" -> BaseCells
      [] name = "db_match_stats_advanced" -> AdvancedRowCells
      [] name = "normalized_wc_players" -> PlayerStatRowCells
      [] name = "clean_wc_standings" -> StandingRowCells

DeriveRows(name, i) ==
    {DeriveRow(name, i)} \cup {Override(DeriveRow(name, i), c) : c \in DeriveCells(name)}

\* The tables of 1..MaxDeriveRows rows.
DeriveTables(name) ==
    UNION {{s \in [1..k -> UNION {DeriveRows(name, i) : i \in 1..k}] :
               \A i \in 1..k : s[i] \in DeriveRows(name, i)} : k \in 1..MaxDeriveRows}

\* The sources of the derivers: one table drawn, and db_matches_base.csv in
\* any case, since derive_all_metrics cannot do without it.
DeriveDirs ==
    LET Beside == [EmptyDir EXCEPT !["db_matches_base"] = Table(<<BaseRow(1)>>)]
    IN UNION {{[Beside EXCEPT ![name] = Table(t)] : t \in DeriveTables(name)} :
                 name \in {"db_matches_base", "db_match_stats_advanced",
                           "normalized_wc_players", "clean_wc_standings"}}

(***************************************************************************)
(* SpecDerive: one function of derive_metrics called on a directory        *)
(***************************************************************************)
DeriveInit ==
    /\ fs \in DeriveDirs
    /\ step = "off"
    /\ trow = 0
    /\ teams_data = <<>>
    /\ team_id_counter = 1
    /\ seen_teams = {}
    /\ split_ret = NoSplit
    /\ pc = "call"
    /\ runs = 0
    /\ results = {}
    /\ failed = {}
    /\ executed = <<>>
    /\ raised = "none"
    /\ exit_code = NoExit
    /\ vran = <<>>
    /\ verror = NoError
    /\ vreturn = FALSE

\* The call of one function; executed, results, failed and raised keep what
\* it did.
Derived(function, r) ==
    /\ pc = "call"
    /\ fs' = r.dir
    /\ executed' = <<function>>
    /\ results' = IF r.result = "ok" THEN {function} ELSE {}
    /\ failed' = IF r.result # "ok" \/ ~r.complete THEN {function} ELSE {}
    /\ raised' = IF r.result = "raise" THEN function ELSE "none"
    /\ pc' = "called"
    /\ UNCHANGED <<runs, exit_code, vran, verror, vreturn, coreVars>>

CallDeriveMatchMetrics == Derived("derive_match_metrics", DeriveMatchMetrics(fs))

CallDerivePlayerMetrics == Derived("derive_player_metrics", DerivePlayerMetrics(fs))

CallDeriveStandingsMetrics ==
    Derived("derive_standings_metrics", DeriveStandingsMetrics(fs))

CallDeriveAllMetrics == Derived("derive_all_metrics", DeriveAllMetrics(fs))

DeriveNext ==
    \/ CallDeriveMatchMetrics
    \/ CallDerivePlayerMetrics
    \/ CallDeriveStandingsMetrics
    \/ CallDeriveAllMetrics

SpecDerive == DeriveInit /\ [][DeriveNext]_vars

(***************************************************************************)
(* Properties of the metric derivers                                       *)
(***************************************************************************)
DeriveSources ==
    {"db_matches_base", "db_match_stats_advanced", "normalized_wc_players",
     "clean_wc_standings"}

EnhancedOf(name) ==
    CASE name = "db_matches_base" -> "db_matches_base_enhanced"
      [] name = "db_match_stats_advanced" -> "db_match_stats_advanced_enhanced"
      [] name = "normalized_wc_players" -> "db_players_stats_enhanced"
      [] name = "clean_wc_standings" -> "db_standings_enhanced"

\* The enhanced table of a source, once a deriver has written it.
EnhancedRows(name) ==
    IF pc = "called" /\ Readable(fs[EnhancedOf(name)])
    THEN fs[EnhancedOf(name)].rows ELSE <<>>

\* Each ratio column with the column that is its denominator.
RatioColumns(name) ==
    CASE name = "db_matches_base" ->
            {<<"home_shot_accuracy", "home_shots">>, <<"away_shot_accuracy", "away_shots">>}
      [] name = "db_match_stats_advanced" ->
            {<<"home_pass_accuracy", "home_passes_attempted">>,
             <<"away_pass_accuracy", "away_passes_attempted">>}
      [] name = "normalized_wc_players" ->
            {<<"goals_per_game", "games">>, <<"assists_per_game", "games">>,
             <<"contributions_per_game", "games">>, <<"shot_efficiency", "shots">>,
             <<"sot_percentage", "shots">>}
      [] name = "clean_wc_standings" ->
            {<<"win_percentage", "played">>, <<"points_per_game", "played">>,
             <<"goals_per_game", "played">>}

\* C24: deriving from tables with rows never raises, and in every enhanced
\* table a ratio column is null (and so not 0) on every row whose denominator
\* is 0 or null; possession_delta and xg_difference are null on every row
\* that lacks one of their operands.
C24_UndefinedRatioIsNull ==
    pc = "called" =>
        /\ raised = "none"
        /\ \A name \in DeriveSources :
              \A i \in DOMAIN EnhancedRows(name) :
                 \A p \in RatioColumns(name) :
                    EnhancedRows(name)[i][p[2]] \in {0, NaN}
                        => EnhancedRows(name)[i][p[1]] = NoRatio
        /\ \A i \in DOMAIN EnhancedRows("db_match_stats_advanced") :
              LET r == EnhancedRows("db_match_stats_advanced")[i]
              IN /\ (r.home_possession = NaN \/ r.away_possession = NaN)
                       => r.possession_delta = NaN
                 /\ (r.home_xg = NaN \/ r.away_xg = NaN) => r.xg_difference = NaN

\* derive_standings_metrics has enhanced a table whose first row has played
\* 0 and whose second row has no played value.
C24_Witness ==
    /\ pc = "called"
    /\ executed = <<"derive_standings_metrics">>
    /\ Len(EnhancedRows("clean_wc_standings")) = 2
    /\ EnhancedRows("clean_wc_standings")[1].played = 0
    /\ EnhancedRows("clean_wc_standings")[2].played = NaN
    /\ EnhancedRows("clean_wc_standings")[1].win_percentage = NoRatio
    /\ EnhancedRows("clean_wc_standings")[2].points_per_game = NoRatio

\* C25: in the enhanced player table, shot_efficiency is goals / shots * 100
\* of the row's own goals and shots where shots > 0 (null when goals is null)
\* and null where shots is 0 or null; goal_contributions is goals + assists
\* with a null counted as 0; contributions_per_game is goal_contributions /
\* games where games > 0.
C25_PlayerMetricsRecomputed ==
    \A i \in DOMAIN EnhancedRows("normalized_wc_players") :
        LET r == EnhancedRows("normalized_wc_players")[i]
        IN /\ (r.shots # NaN /\ r.shots > 0 /\ r.goals # NaN)
                 => /\ r.shot_efficiency.den # 0
                    /\ r.shot_efficiency.num * r.shots
                          = r.goals * 100 * r.shot_efficiency.den
           /\ (r.shots # NaN /\ r.shots > 0 /\ r.goals = NaN)
                 => r.shot_efficiency = NoRatio
           /\ (r.shots = NaN \/ r.shots = 0) => r.shot_efficiency = NoRatio
           /\ r.goal_contributions
                 = (IF r.goals = NaN THEN 0 ELSE r.goals)
                     + (IF r.assists = NaN THEN 0 ELSE r.assists)
           /\ (r.games # NaN /\ r.games > 0)
                 => /\ r.contributions_per_game.den # 0
                    /\ r.contributions_per_game.num * r.games
                          = r.goal_contributions * r.contributions_per_game.den

\* derive_player_metrics has enhanced a row with 2 goals from 4 shots and a
\* row without shots.
C25_Witness ==
    /\ pc = "called"
    /\ executed = <<"derive_player_metrics">>
    /\ Len(EnhancedRows("normalized_wc_players")) = 2
    /\ EnhancedRows("normalized_wc_players")[1].goals = 2
    /\ EnhancedRows("normalized_wc_players")[1].shots = 4
    /\ EnhancedRows("normalized_wc_players")[1].shot_efficiency = [num |-> 200, den |-> 4]
    /\ EnhancedRows("normalized_wc_players")[2].shots = 0
    /\ EnhancedRows("normalized_wc_players")[2].shot_efficiency = NoRatio

\* C26: in the enhanced match table result is H where home_goals >
\* away_goals, A where away_goals > home_goals and D otherwise (so also where
\* a goal count is null); goal_difference and total_goals are the difference
\* and the sum of the two goal counts; total_cards is the sum of the four card
\* counters with a null counted as 0; where both goal counts are present,
\* result agrees with the sign of goal_difference.
C26_ResultAndTotals ==
    \A i \in DOMAIN EnhancedRows("db_matches_base") :
        LET r == EnhancedRows("db_matches_base")[i]
            both == r.home_goals # NaN /\ r.away_goals # NaN
            zero(x) == IF x = NaN THEN 0 ELSE x
        IN /\ r.result = IF both /\ r.home_goals > r.away_goals THEN "H"
                         ELSE IF both /\ r.away_goals > r.home_goals THEN "A" ELSE "D"
           /\ r.result \in {"H", "A", "D"}
           /\ both => /\ r.goal_difference = r.home_goals - r.away_goals
                      /\ r.total_goals = r.home_goals + r.away_goals
                      /\ r.result = "H" <=> r.goal_difference > 0
                      /\ r.result = "A" <=> r.goal_difference < 0
                      /\ r.result = "D" <=> r.goal_difference = 0
           /\ ~both => r.goal_difference = NaN /\ r.total_goals = NaN
           /\ r.total_cards = zero(r.home_yellow) + zero(r.away_yellow)
                                + zero(r.home_red) + zero(r.away_red)

\* derive_match_metrics has enhanced an away win (0:1) with a null card
\* counter and a home win (2:1).
C26_Witness ==
    /\ pc = "called"
    /\ executed = <<"derive_match_metrics">>
    /\ Len(EnhancedRows("db_matches_base")) = 2
    /\ EnhancedRows("db_matches_base")[1].home_goals = 0
    /\ EnhancedRows("db_matches_base")[1].result = "A"
    /\ EnhancedRows("db_matches_base")[1].goal_difference = -1
    /\ EnhancedRows("db_matches_base")[2].result = "H"
    /\ EnhancedRows("db_matches_base")[2].total_cards = 2

\* The columns a deriver adds to a table.
NewColumns(name) ==
    CASE name = "db_matches_base" ->
            {"goal_difference", "total_goals", "total_cards", "home_shot_accuracy",
             "away_shot_accuracy", "result"}
      [] name = "db_match_stats_advanced" ->
            {"home_pass_accuracy", "away_pass_accuracy", "possession_delta",
             "xg_difference"}
      [] name = "normalized_wc_players" ->
            {"goals_per_game", "assists_per_game", "shot_efficiency", "sot_percentage",
             "goal_contributions", "contributions_per_game"}
      [] name = "clean_wc_standings" ->
            {"win_percentage", "points_per_game", "goals_per_game", "clean_sheets"}

\* C27: an enhanced table has as many rows as its source table; row i holds
\* every column of row i of the source with the source's value, and its
\* other columns are the derived columns of that table.
C27_EnhancedKeepsSource ==
    \A name \in DeriveSources :
        (pc = "called" /\ Readable(fs[EnhancedOf(name)]))
        => LET source == fs[name].rows
               enhanced == fs[EnhancedOf(name)].rows
           IN /\ Len(enhanced) = Len(source)
              /\ \A i \in DOMAIN source :
                    /\ DOMAIN source[i] \subseteq DOMAIN enhanced[i]
                    /\ \A c \in DOMAIN source[i] : enhanced[i][c] = source[i][c]
                    /\ DOMAIN enhanced[i] \ DOMAIN source[i] = NewColumns(name)

\* derive_all_metrics has enhanced a standings table of two different rows
\* and the match table beside it.
C27_Witness ==
    /\ pc = "called"
    /\ executed = <<"derive_all_metrics">>
    /\ Len(EnhancedRows("clean_wc_standings")) = 2
    /\ EnhancedRows("clean_wc_standings")[1].wins = 3
    /\ EnhancedRows("clean_wc_standings")[2].wins = 1
    /\ EnhancedRows("clean_wc_standings")[2].rank = 2
    /\ Len(EnhancedRows("db_matches_base")) = 1

(***************************************************************************)
(* SpecPlayers: create_players_table and normalize_players on a merged     *)
(* player table, after create_teams_table has written the teams A and B.   *)
(* clean_wc_players may write another table between the two calls, so that *)
(* the statistics name a player the Players table does not hold.           *)
(***************************************************************************)
StatPlayerNames == {"p", "q"}

\* Team "C" has no Teams row.
MergedPlayerRows == {[player |-> p, team |-> t] : p \in StatPlayerNames, t \in {"A", "C"}}

\* drop_duplicates(subset=['player', 'team']) leaves no pair twice.
MergedPlayerTables ==
    {t \in SeqsUpTo(MergedPlayerRows, MaxPlayerRows) :
        t # <<>> /\ \A i, j \in DOMAIN t : t[i] = t[j] => i = j}

PlayersInit ==
    /\ \E t \in MergedPlayerTables :
          fs = CreateTeamsTable(
                  [EmptyDir EXCEPT !["clean_wc_matches"] =
                                       Table(<<[competition_name |-> WcCompetition,
                                                home_team |-> "A", away_team |-> "B"]>>),
                                   !["clean_wc_players"] = Table(t)])
    /\ step = "off"
    /\ trow = 0
    /\ teams_data = <<>>
    /\ team_id_counter = 1
    /\ seen_teams = {}
    /\ split_ret = NoSplit
    /\ pc = "create_players_table"
    /\ runs = 0
    /\ results = {}
    /\ failed = {}
    /\ executed = <<>>
    /\ raised = "none"
    /\ exit_code = NoExit
    /\ vran = <<>>
    /\ verror = NoError
    /\ vreturn = FALSE

\* One function called; executed keeps the calls.
PlayersStep(function, r, next) ==
    /\ pc = function
    /\ fs' = r.dir
    /\ executed' = Append(executed, function)
    /\ results' = IF r.result = "ok" THEN results \cup {function} ELSE results
    /\ failed' = IF r.result # "ok" THEN failed \cup {function} ELSE failed
    /\ raised' = IF r.result = "raise" THEN function ELSE raised
    /\ pc' = next
    /\ UNCHANGED <<runs, exit_code, vran, verror, vreturn, coreVars>>

CallCreatePlayersTable ==
    PlayersStep("create_players_table", CreatePlayersTable(fs), "normalize_players")

CallCleanWcPlayersAgain ==
    /\ pc = "normalize_players"
    /\ "clean_wc_players" \notin SeqToSet(executed)
    /\ \E t \in MergedPlayerTables : fs' = [fs EXCEPT !["clean_wc_players"] = Table(t)]
    /\ executed' = Append(executed, "clean_wc_players")
    /\ UNCHANGED <<pc, runs, results, failed, raised, exit_code, vran, verror, vreturn,
                   coreVars>>

CallNormalizePlayers ==
    PlayersStep("normalize_players", NormalizePlayers(fs), "done")

PlayersNext ==
    \/ CallCreatePlayersTable
    \/ CallCleanWcPlayersAgain
    \/ CallNormalizePlayers

SpecPlayers == PlayersInit /\ [][PlayersNext]_vars

(***************************************************************************)
(* Properties of create_players_table and normalize_players                *)
(***************************************************************************)
\* C23: create_players_table writes one Players row per row of the merged
\* player table, in the same order; row i has player_id i, the player's name
\* and team name, and the team_id of the Teams row with exactly that team
\* name, or null when there is none; so the player_ids are exactly 1..P.
C23_PlayerIdsAndTeams ==
    [][pc = "create_players_table" =>
          LET df == fs["clean_wc_players"].rows
              teams == fs["ref_teams"].rows
              players == fs'["ref_players"].rows
          IN /\ Readable(fs'["ref_players"])
             /\ Len(players) = Len(df)
             /\ {players[i].player_id : i \in DOMAIN players} = 1..Len(df)
             /\ \A i \in DOMAIN df :
                   /\ players[i].player_id = i
                   /\ players[i].player_name = df[i].player
                   /\ players[i].team_name = df[i].team
                   /\ \/ \E k \in DOMAIN teams :
                            /\ teams[k].team_name = df[i].team
                            /\ players[i].team_id = teams[k].team_id
                      \/ /\ \A k \in DOMAIN teams : teams[k].team_name # df[i].team
                         /\ players[i].team_id = NaN]_vars

\* The Players table of a player of team A and a player of team C, which
\* has no Teams row.
C23_Witness ==
    /\ pc = "normalize_players"
    /\ executed = <<"create_players_table">>
    /\ Len(fs["ref_players"].rows) = 2
    /\ fs["ref_players"].rows[1].team_id = 1
    /\ fs["ref_players"].rows[2].player_id = 2
    /\ fs["ref_players"].rows[2].team_name = "C"
    /\ fs["ref_players"].rows[2].team_id = NaN

\* C28: normalize_players writes the rows of the player statistics in their
\* order, each with the player_id of the Players row that has the row's
\* player and team, and the team_id of that Players row (both null when there
\* is no such row); no two rows get the same player_id; and when the Players
\* table was made from this statistics table, row i gets player_id i.
C28_PlayerStatsKeys ==
    pc = "done" =>
        LET stats == fs["clean_wc_players"].rows
            players == fs["ref_players"].rows
            out == fs["normalized_wc_players"].rows
            same(i) == {j \in DOMAIN players :
                           /\ players[j].player_name = stats[i].player
                           /\ players[j].team_name = stats[i].team}
        IN /\ Readable(fs["normalized_wc_players"])
           /\ Len(out) = Len(stats)
           /\ \A i \in DOMAIN stats :
                 /\ out[i].player = stats[i].player
                 /\ out[i].team = stats[i].team
                 /\ same(i) = {} => (out[i].player_id = NaN /\ out[i].team_id = NaN)
                 /\ same(i) # {} =>
                       \E j \in same(i) : /\ out[i].player_id = players[j].player_id
                                          /\ out[i].team_id = players[j].team_id
           /\ \A i, j \in DOMAIN out :
                 (i # j /\ out[i].player_id # NaN) => out[i].player_id # out[j].player_id
           /\ "clean_wc_players" \notin SeqToSet(executed)
                 => \A i \in DOMAIN out : out[i].player_id = i

\* The statistics of player p in team A and in team C, normalized with the
\* Players table made from them.
C28_Witness ==
    /\ pc = "done"
    /\ executed = <<"create_players_table", "normalize_players">>
    /\ Len(fs["normalized_wc_players"].rows) = 2
    /\ fs["normalized_wc_players"].rows[1].player = "p"
    /\ fs["normalized_wc_players"].rows[2].player = "p"
    /\ fs["normalized_wc_players"].rows[1].team_id = 1
    /\ fs["normalized_wc_players"].rows[2].player_id = 2
    /\ fs["normalized_wc_players"].rows[2].team_id = NaN

(***************************************************************************)
(* Properties of the team ids of MatchBase                                 *)
(***************************************************************************)
\* id is the team_id of a Teams row named name.
IsTeamIdOf(id, name) ==
    \E k \in DOMAIN fs["ref_teams"].rows :
        /\ fs["ref_teams"].rows[k].team_name = name
        /\ fs["ref_teams"].rows[k].team_id = id

\* C29: after create_teams_table, normalize_matches and split_matches have
\* run in this order on the same cleaned match tables, MatchBase has one row
\* per cleaned league row and then per cleaned World-Cup row, and each row's
\* home_team_id and away_team_id are non-null and are the team_id of the
\* Teams row named by the cleaned row's home_team and away_team.
C29_TeamKeysClosed ==
    step = "finished" =>
        LET cleaned == RowsOf("clean_league_matches") \o RowsOf("clean_wc_matches")
            base == fs["db_matches_base"].rows
        IN /\ Len(base) = Len(cleaned)
           /\ \A i \in DOMAIN cleaned :
                 /\ base[i].home_team_id # NaN
                 /\ base[i].away_team_id # NaN
                 /\ IsTeamIdOf(base[i].home_team_id, cleaned[i].home_team)
                 /\ IsTeamIdOf(base[i].away_team_id, cleaned[i].away_team)

\* League matches A-B and B-A and the World-Cup match C-A: the third
\* MatchBase row has the ids of C and A.
C29_Witness ==
    /\ step = "finished"
    /\ Len(fs["db_matches_base"].rows) = 3
    /\ Len(RowsOf("clean_wc_matches")) = 1
    /\ RowsOf("clean_wc_matches")[1].home_team = "C"
    /\ RowsOf("clean_wc_matches")[1].away_team = "A"
    /\ fs["db_matches_base"].rows[1].home_team_id = 1
    /\ fs["db_matches_base"].rows[1].away_team_id = 2
    /\ fs["db_matches_base"].rows[3].home_team_id = 3
    /\ fs["db_matches_base"].rows[3].away_team_id = 1

====
